---- MODULE Spec2Model ----
(***************************************************************************)
(* Model of the French-learning web application: the content cache and    *)
(* seedContent of src/services/geminiService.ts, the page and views that   *)
(* call it (src/unnamed/part_010, LearningView, QuizView, SpeakingView),   *)
(* and the speaking session of src/components/SpeakingView.tsx.            *)
(*                                                                         *)
(* The specifications of the module:                                       *)
(*   Spec       seedContent called as an exported service function, in any *)
(*              order and with request/response phases interleaved;        *)
(*   SpecUI     the same service driven only by the UI actions of one      *)
(*              SubCategoryPage;                                           *)
(*   SpecSpeak  the speaking session of SpeakingView;                      *)
(*   SpecMsg    the server messages handled by an open speaking session;   *)
(*   SpecImage  the image handlers of LearningView;                        *)
(*   SpecService  the request parts of generateEducationalImage,           *)
(*              generateQuiz and analyzeHistory;                           *)
(*   SpecHistory  addLivePoints and recordHistory of the App component and *)
(*              the aggregates computed from the history log;              *)
(*   SpecPlay   quizzes and speaking sessions played through the pages of  *)
(*              the App, with the stars and history they produce;          *)
(*   SpecLearn  the cards of a LearningView: navigation, the image effect  *)
(*              and the image requests it starts.                          *)
(***************************************************************************)
EXTENDS Integers, Sequences, FiniteSets, TLC

----------------------------------------------------------------------------
(* Bounds of the model *)

MaxCalls == 3

SmallBatch == 3

MidBatch == 12

BigBatch == 41

----------------------------------------------------------------------------
(* Program constants *)

SliceCap == 40

VerbLimit == 12

DefaultLimit == 15

VerbTenses == {"present", "past", "future"}

RequiredFields == {"french", "english", "example", "exampleEnglish"}

NoExtra == ""

\* the code-fence markers of a generation response
FenceJson == "fence_json"

Fence == "fence"

----------------------------------------------------------------------------
(* State *)

VARIABLES
  store,      \* localStorage: storage id -> stored JSON text (absent ids are not in the domain)
  pending,    \* seedContent calls suspended at the await of generateContent
  nCalls,     \* number of seedContent calls made so far
  last,       \* observation of the seedContent call that returned in the last step
  page,       \* SubCategoryPage: the subcategory and type of the route
  mode,       \* SubCategoryPage: mode state
  viewId,     \* identity of the mounted view instance (a new one per mount)
  subTopic,   \* LearningView: selectedSubTopic
  items,      \* LearningView: items state of the mounted view
  loading,    \* LearningView / QuizView: loading state of the mounted view
  difficulty, \* QuizView: difficulty state
  quizPc,     \* QuizView: position of fetchQuestions / generateQuiz of the mounted view
  mounted,    \* SpeakingView: the component is mounted
  proMode,    \* SpeakingView: isPronunciationMode prop
  isActive,   \* SpeakingView: isActive state
  isConnecting, \* SpeakingView: isConnecting state
  unitIndex,  \* SpeakingView: unitIndex state
  sessionRef, \* SpeakingView: sessionRef.current (0 is null, else the session)
  animationFrameRef, \* SpeakingView: animationFrameRef.current (0 is null, else the loop whose frame it names)
  sess,       \* the startSession runs: position, microphone stream, remote session, volume loop
  timers,     \* pending setTimeout(startSession, 400) callbacks of handleNextUnit
  op,         \* the SpeakingView handler or callback that ran in the last step
  clock,      \* SpeakingView: outputAudioContextRef.current.currentTime
  nextStartTimeRef, \* SpeakingView: nextStartTimeRef.current
  sourcesRef, \* SpeakingView: sourcesRef.current, the tracked clip sources (by message)
  clips,      \* the clips given to source.start, in the order of the calls
  decoding,   \* onmessage handlers suspended at await decodeAudioData
  nMsgs,      \* number of server messages delivered to onmessage
  interrupts, \* number of interruption signals handled
  lastInterrupted, \* the latest message whose interruption signal was handled (0: none)
  currentTutorText, \* SpeakingView: currentTutorText state
  currentUserText,  \* SpeakingView: currentUserText state
  transcriptions,   \* SpeakingView: transcriptions state
  heard,      \* the partial transcripts delivered since the last turn completion, and those of the last completed turn
  hasKey,     \* window.aistudio: a credential is selected
  imageStore, \* the image blob cache: the terms that have a stored image
  runs,       \* the handleGenerateImage runs of the LearningView, in starting order
  needsApiKey, \* LearningView: needsApiKey state
  prep,       \* LearningView: the handlePrepareAll run and stopPrepRef
  svc,        \* observation of the latest service call that returned, and the number of such calls
  stars,      \* App: stars state
  history,    \* App: history state, the log of finished sessions
  persisted,  \* localStorage: the texts under petits_stars and petits_history
  questions,  \* QuizView: questions state
  currentIndex, \* QuizView / LearningView: currentIndex state of the mounted view
  selectedOption, \* QuizView: selectedOption state ("null" is null)
  isCorrect,  \* QuizView: isCorrect state ("null" is null)
  sessionScore, \* QuizView: sessionScore state
  pointsEarned, \* SpeakingView: pointsEarned state
  tally,      \* the onPointEarned calls of the mounted view: their sum and the number of correct answers
  finished,   \* observation of the latest onFinish call
  generatingImage \* LearningView: generatingImage state

seedVars == <<store, pending, nCalls, last>>

uiVars == <<page, mode, viewId, subTopic, items, loading, difficulty, quizPc>>

speakVars == <<mounted, proMode, isActive, isConnecting, unitIndex, sessionRef, animationFrameRef, sess, timers, op>>

msgVars == <<clock, nextStartTimeRef, sourcesRef, clips, decoding, nMsgs, interrupts,
             lastInterrupted, currentTutorText, currentUserText, transcriptions, heard>>

imgVars == <<hasKey, imageStore, runs, needsApiKey, prep, svc>>

ledgerVars == <<stars, history, persisted>>

playVars == <<questions, currentIndex, selectedOption, isCorrect, sessionScore, pointsEarned, tally, finished>>

learnVars == <<generatingImage>>

appVars == <<ledgerVars, playVars, learnVars>>

vars == <<store, pending, nCalls, last, page, mode, viewId, subTopic, items, loading, difficulty, quizPc,
          mounted, proMode, isActive, isConnecting, unitIndex, sessionRef, animationFrameRef, sess, timers, op,
          clock, nextStartTimeRef, sourcesRef, clips, decoding, nMsgs, interrupts,
          lastInterrupted, currentTutorText, currentUserText, transcriptions, heard,
          hasKey, imageStore, runs, needsApiKey, prep, svc,
          stars, history, persisted,
          questions, currentIndex, selectedOption, isCorrect, sessionScore, pointsEarned, tally, finished,
          generatingImage>>

----------------------------------------------------------------------------
(* JSON texts.  A text is a record [pre, body, post]: an optional leading   *)
(* fence, the payload, an optional trailing fence.                         *)

ArrayText(list) == [pre |-> "", body |-> [kind |-> "array", items |-> list], post |-> ""]

\* JSON.stringify of a WordItem[]
Stringify(list) == ArrayText(list)

\* Number.prototype.toString of a non-negative integer: its decimal digits
NumberToString(n) == [digits |-> n]

\* parseInt of a text of decimal digits
ParseInt(t) == t.digits

\* cleanedText: a leading json fence and a trailing fence are stripped from rawText
CleanText(text) ==
  [pre  |-> IF text.pre = FenceJson THEN "" ELSE text.pre,
   body |-> text.body,
   post |-> IF text.post = Fence THEN "" ELSE text.post]

\* JSON.parse: [ok, value]; a text with a fence left in it, or a payload
\* that is not JSON, throws a SyntaxError (ok = FALSE).
JSONParse(text) ==
  IF text.pre # "" \/ text.post # "" \/ text.body.kind = "garbage"
    THEN [ok |-> FALSE, value |-> [kind |-> "garbage"]]
    ELSE [ok |-> TRUE, value |-> text.body]

\* [...value]: an array spreads to its elements, an object is not
\* iterable (TypeError, ok = FALSE).
Spread(value) ==
  IF value.kind = "array"
    THEN [ok |-> TRUE, items |-> value.items]
    ELSE [ok |-> FALSE, items |-> <<>>]

\* slice with its end one past the requested one
SliceToOffByOne(s, n) == SubSeq(s, 1, IF Len(s) < n + 1 THEN Len(s) ELSE n + 1)

\* Array.prototype.slice(0, n)
SliceTo(s, n) == SubSeq(s, 1, IF Len(s) < n THEN Len(s) ELSE n)

----------------------------------------------------------------------------
(* Content cache *)

StorageId(sub, extra) == IF extra # NoExtra THEN <<sub, extra>> ELSE <<sub, NoExtra>>

\* getStoredContent as a function of the storage contents
StoredContent(st, id) ==
  IF id \notin DOMAIN st THEN <<>>
  ELSE LET p == JSONParse(st[id])
       IN IF p.ok /\ p.value.kind = "array" THEN p.value.items ELSE <<>>

getStoredContent(id) == StoredContent(store, id)

\* localStorage.setItem
SetItem(st, id, text) == [k \in (DOMAIN st) \cup {id} |-> IF k = id THEN text ELSE st[k]]

----------------------------------------------------------------------------
(* Generation responses *)

\* a WordItem with the required fields; its french names the call and position
ValidItem(c, i) == [french |-> <<c, i>>, english |-> "en", example |-> "ex", exampleEnglish |-> "exEn"]

\* an object that lacks required fields
PartialItem(c, i) == [french |-> <<c, i>>]

Batch(c, k) == [i \in 1..k |-> ValidItem(c, i)]

PartialBatch(c, k) == [i \in 1..k |-> PartialItem(c, i)]

\* response.text is undefined or empty
NoText == [pre |-> "", body |-> [kind |-> "none"], post |-> ""]

\* the response texts the service may deliver to call c
Texts(c) ==
  { ArrayText(Batch(c, k)) : k \in {MidBatch, BigBatch} }
  \cup { [pre |-> FenceJson, body |-> [kind |-> "array", items |-> Batch(c, SmallBatch)], post |-> Fence],
         [pre |-> Fence, body |-> [kind |-> "garbage"], post |-> Fence],
         [pre |-> "", body |-> [kind |-> "object"], post |-> ""],
         ArrayText(PartialBatch(c, SmallBatch)),
         NoText }

\* the outcomes of the awaited generateContent of call c
Outcomes(c) == {[net |-> "error", text |-> NoText]} \cup {[net |-> "ok", text |-> t] : t \in Texts(c)}

----------------------------------------------------------------------------
(* seedContent *)

\* the verb tenses are not recognised
isVerbTenseNever(sub) == FALSE

isVerbTense(sub) == sub \in VerbTenses

\* the limits of the earlier version of seedContent (50 items per batch)
SeedLimitLegacy(sub) == 50

SeedLimit(sub) == IF isVerbTense(sub) THEN VerbLimit ELSE DefaultLimit

\* const rawText = response.text || "[]"
RawText(r) == IF r.text.body.kind = "none" THEN ArrayText(<<>>) ELSE r.text

\* the inner catch falls back to the empty list instead of the cached one
SeedInnerTryEmpty(existing, cleanedText) ==
  LET p == JSONParse(cleanedText)
      s == Spread(p.value)
      updated == SliceTo(existing \o s.items, SliceCap)
  IN IF p.ok /\ s.ok
       THEN [write |-> TRUE, updated |-> updated, ret |-> updated, threw |-> FALSE]
       ELSE [write |-> FALSE, updated |-> <<>>, ret |-> <<>>, threw |-> FALSE]

\* the inner try/catch: parse, append, truncate, store
SeedInnerTry(existing, cleanedText) ==
  LET p == JSONParse(cleanedText)
      s == Spread(p.value)
      updated == SliceTo(existing \o s.items, SliceCap)
  IN IF p.ok /\ s.ok
       THEN [write |-> TRUE, updated |-> updated, ret |-> updated, threw |-> FALSE]
       ELSE [write |-> FALSE, updated |-> <<>>, ret |-> existing, threw |-> FALSE]

\* the outer try/catch around the request and the handling of its response
SeedAfterAwait(existing, r) ==
  IF r.net = "error"
    THEN [write |-> FALSE, updated |-> <<>>, ret |-> existing, threw |-> FALSE]
    ELSE SeedInnerTry(existing, CleanText(RawText(r)))

NoCall == [call |-> 0]

\* The synchronous part of seedContent(sub, type, extra), up to the await:
\* returns the cached list at or above the limit, else issues the request.
SeedEnter(sub, type, extra, caller, view) ==
  LET id == StorageId(sub, extra)
      existing == getStoredContent(id)
      c == nCalls + 1
  IN /\ nCalls < MaxCalls
     /\ nCalls' = c
     /\ store' = store
     /\ IF Len(existing) >= SeedLimit(sub)
          THEN /\ pending' = pending
               /\ last' = [call |-> c, sub |-> sub, storageId |-> id, existing |-> existing,
                           input |-> [net |-> "none", text |-> NoText], requests |-> 0,
                           wrote |-> FALSE, changed |-> FALSE, before |-> existing,
                           after |-> existing, result |-> existing, threw |-> FALSE,
                           caller |-> caller, view |-> view]
          ELSE /\ pending' = pending \cup {[call |-> c, sub |-> sub, type |-> type, extra |-> extra,
                                            storageId |-> id, existing |-> existing,
                                            caller |-> caller, view |-> view]}
               /\ last' = NoCall

\* The rest of seedContent for the suspended call c once the request settles with r.
SeedSettle(c, r) ==
  LET res == SeedAfterAwait(c.existing, r)
      st2 == IF res.write THEN SetItem(store, c.storageId, Stringify(res.updated)) ELSE store
  IN /\ pending' = pending \ {c}
     /\ store' = st2
     /\ nCalls' = nCalls
     /\ last' = [call |-> c.call, sub |-> c.sub, storageId |-> c.storageId, existing |-> c.existing,
                 input |-> r, requests |-> 1, wrote |-> res.write, changed |-> (st2 # store),
                 before |-> getStoredContent(c.storageId),
                 after |-> StoredContent(st2, c.storageId), result |-> res.ret,
                 threw |-> res.threw, caller |-> c.caller, view |-> c.view]

----------------------------------------------------------------------------
(* Spec: seedContent as an exported function of the service module *)

\* the (subcategory, type, extraParam) arguments of the calls
SeedArgs ==
  { [sub |-> "present", type |-> "GRAMMAR", extra |-> NoExtra],
    [sub |-> "articles", type |-> "GRAMMAR", extra |-> "le"] }

NoPage == [sub |-> "none", type |-> "none"]

NoOp == [name |-> "none", target |-> 0]

\* the SpeakingView before any session: state and refs as initialised
SpeakIdle ==
  /\ mounted = TRUE
  /\ proMode = FALSE
  /\ isActive = FALSE
  /\ isConnecting = FALSE
  /\ unitIndex = 0
  /\ sessionRef = 0
  /\ animationFrameRef = 0
  /\ sess = <<>>
  /\ timers = {}
  /\ op = NoOp

\* the refs and transcript state of SpeakingView before any server message
MsgIdle ==
  /\ clock = 0
  /\ nextStartTimeRef = 0
  /\ sourcesRef = {}
  /\ clips = <<>>
  /\ decoding = {}
  /\ nMsgs = 0
  /\ interrupts = 0
  /\ lastInterrupted = 0
  /\ currentTutorText = <<>>
  /\ currentUserText = <<>>
  /\ transcriptions = <<>>
  /\ heard = [user |-> <<>>, tutor |-> <<>>, turnUser |-> <<>>, turnTutor |-> <<>>]

NoService == [fn |-> "none", n |-> 0]

NoPrep == [pc |-> "idle", i |-> 0, run |-> 0, stop |-> FALSE]

\* the image state of a LearningView before any image handler has run
ImgIdle ==
  /\ hasKey = FALSE
  /\ imageStore = {}
  /\ runs = <<>>
  /\ needsApiKey = FALSE
  /\ prep = NoPrep
  /\ svc = NoService

NoTally == [awarded |-> 0, correct |-> 0]

NoFinish == [view |-> 0]

\* a QuizView or SpeakingView as it mounts
FreshView ==
  /\ questions = <<>>
  /\ currentIndex = 0
  /\ selectedOption = "null"
  /\ isCorrect = "null"
  /\ sessionScore = 0
  /\ pointsEarned = 0
  /\ tally = NoTally

\* App before any point was earned; its effect has written both keys
AppIdle ==
  /\ stars = 0
  /\ history = <<>>
  /\ persisted = [stars |-> NumberToString(0), history |-> Stringify(<<>>)]
  /\ FreshView
  /\ finished = NoFinish
  /\ generatingImage = FALSE

UIIdle ==
  /\ page = NoPage
  /\ mode = "choice"
  /\ viewId = 0
  /\ subTopic = NoExtra
  /\ items = <<>>
  /\ loading = FALSE
  /\ difficulty = "null"
  /\ quizPc = "idle"

Init ==
  /\ store = << >>
  /\ pending = {}
  /\ nCalls = 0
  /\ last = NoCall
  /\ UIIdle
  /\ SpeakIdle
  /\ MsgIdle
  /\ ImgIdle
  /\ AppIdle

SeedCall ==
  /\ \E a \in SeedArgs : SeedEnter(a.sub, a.type, a.extra, "api", 0)
  /\ UNCHANGED uiVars
  /\ UNCHANGED <<speakVars, msgVars, imgVars, appVars>>

SeedReturn ==
  /\ \E c \in pending : \E r \in Outcomes(c.call) : SeedSettle(c, r)
  /\ UNCHANGED uiVars
  /\ UNCHANGED <<speakVars, msgVars, imgVars, appVars>>

Next == SeedCall \/ SeedReturn

Spec == Init /\ [][Next]_vars

----------------------------------------------------------------------------
(* SpecUI: the service driven by the UI of one SubCategoryPage *)

MaxViews == 3

\* the routes of the model: a vocabulary topic, a grammar topic with
\* sub-topic windows, a speaking topic
Pages ==
  { [sub |-> "animals", type |-> "VOCABULARY"],
    [sub |-> "articles", type |-> "GRAMMAR"],
    [sub |-> "s_intro", type |-> "SPEAKING"] }

\* the sub-topic windows offered for articles
SubTopics == {"le"}

hasWindows == page.sub \in {"articles", "adjectives"}

UnmountedView ==
  /\ subTopic' = NoExtra
  /\ items' = <<>>
  /\ difficulty' = "null"
  /\ quizPc' = "idle"

\* loadData of the LearningView effect, run by view v with selectedSubTopic extra
LearnLoadData(extra, v) ==
  LET data == getStoredContent(StorageId(page.sub, IF hasWindows THEN extra ELSE NoExtra))
  IN IF Len(data) = 0
       THEN /\ SeedEnter(page.sub, page.type, extra, "learn", v)
            /\ loading' = TRUE
            /\ items' = items
       ELSE /\ items' = data
            /\ loading' = FALSE
            /\ UNCHANGED <<store, pending, nCalls>>
            /\ last' = NoCall

\* first button of the choice screen: Learn, or Conversation on a speaking
\* route; the view mounts and its load effect runs
ClickLearn ==
  /\ page # NoPage /\ mode = "choice" /\ viewId < MaxViews
  /\ viewId' = viewId + 1
  /\ UNCHANGED <<page, difficulty, quizPc>>
  /\ IF page.type = "SPEAKING"
       THEN \* SpeakingView: category is not passed, loadData reads the cache only
            /\ mode' = "speaking"
            /\ UNCHANGED <<store, pending, nCalls, subTopic, items, loading>>
            /\ last' = NoCall
       ELSE /\ mode' = "learning"
            /\ subTopic' = NoExtra
            /\ IF hasWindows
                 THEN /\ loading' = FALSE
                      /\ UNCHANGED <<store, pending, nCalls, items>>
                      /\ last' = NoCall
                 ELSE LearnLoadData(NoExtra, viewId + 1)
  /\ UNCHANGED <<speakVars, msgVars, imgVars, appVars>>

\* a sub-topic window is chosen; the load effect reruns
SelectSubTopic ==
  /\ mode = "learning" /\ hasWindows /\ subTopic = NoExtra
  /\ \E g \in SubTopics :
       /\ subTopic' = g
       /\ LearnLoadData(g, viewId)
  /\ UNCHANGED <<page, mode, viewId, difficulty, quizPc>>
  /\ UNCHANGED <<speakVars, msgVars, imgVars, appVars>>

\* Back to the windows: setSelectedSubTopic(null); the effect only clears loading
ClearSubTopic ==
  /\ mode = "learning" /\ hasWindows /\ subTopic # NoExtra /\ ~loading
  /\ subTopic' = NoExtra
  /\ loading' = FALSE
  /\ last' = NoCall
  /\ UNCHANGED <<store, pending, nCalls, page, mode, viewId, items, difficulty, quizPc>>
  /\ UNCHANGED <<speakVars, msgVars, imgVars, appVars>>

\* second button of the choice screen, or onComplete of the LearningView
\* (Back to Topic Choice of the windows screen, Back of the empty screen):
\* setMode('quiz'); QuizView mounts without a difficulty, a speaking route
\* mounts SpeakingView in quiz mode
ClickQuiz ==
  /\ page # NoPage /\ viewId < MaxViews
  /\ \/ mode = "choice"
     \/ mode = "learning" /\ hasWindows /\ subTopic = NoExtra
     \/ mode = "learning" /\ ~hasWindows /\ ~loading /\ Len(items) = 0
  /\ mode' = "quiz"
  /\ viewId' = viewId + 1
  /\ loading' = FALSE
  /\ UnmountedView
  /\ last' = NoCall
  /\ UNCHANGED <<store, pending, nCalls, page>>
  /\ UNCHANGED <<speakVars, msgVars, imgVars, appVars>>

\* Back to Options of the page: the mounted view unmounts, its calls stay in flight
BackToOptions ==
  /\ mode # "choice"
  /\ mode' = "choice"
  /\ loading' = FALSE
  /\ UnmountedView
  /\ last' = NoCall
  /\ UNCHANGED <<store, pending, nCalls, page, viewId>>
  /\ UNCHANGED <<speakVars, msgVars, imgVars, appVars>>

ChooseDifficultyNoSeed ==
  /\ mode = "quiz" /\ page.type # "SPEAKING" /\ difficulty = "null"
  /\ \E d \in {"easy", "medium", "hard"} : difficulty' = d
  /\ loading' = TRUE
  /\ quizPc' = "asking"
  /\ last' = NoCall
  /\ UNCHANGED <<store, pending, nCalls, page, mode, viewId, subTopic, items>>
  /\ UNCHANGED <<speakVars, msgVars, imgVars, appVars>>

\* a difficulty is chosen: fetchQuestions runs generateQuiz, which seeds an empty cache
ChooseDifficulty ==
  /\ mode = "quiz" /\ page.type # "SPEAKING" /\ difficulty = "null"
  /\ \E d \in {"easy", "medium", "hard"} : difficulty' = d
  /\ loading' = TRUE
  /\ IF Len(getStoredContent(StorageId(page.sub, NoExtra))) = 0
       THEN /\ SeedEnter(page.sub, page.type, NoExtra, "quiz", viewId)
            /\ quizPc' = "seeding"
       ELSE /\ quizPc' = "asking"
            /\ UNCHANGED <<store, pending, nCalls>>
            /\ last' = NoCall
  /\ UNCHANGED <<page, mode, viewId, subTopic, items>>
  /\ UNCHANGED <<speakVars, msgVars, imgVars, appVars>>

\* the question request of generateQuiz settles: questions or the empty list
QuizRespond ==
  /\ mode = "quiz" /\ quizPc = "asking"
  /\ \E q \in {"empty", "ready"} : quizPc' = q
  /\ loading' = FALSE
  /\ last' = NoCall
  /\ UNCHANGED <<store, pending, nCalls, page, mode, viewId, subTopic, items, difficulty>>
  /\ UNCHANGED <<speakVars, msgVars, imgVars, appVars>>

\* Try Again of the empty quiz: setDifficulty(null)
TryAgain ==
  /\ mode = "quiz" /\ quizPc = "empty" /\ ~loading
  /\ difficulty' = "null"
  /\ quizPc' = "idle"
  /\ last' = NoCall
  /\ UNCHANGED <<store, pending, nCalls, page, mode, viewId, subTopic, items, loading>>
  /\ UNCHANGED <<speakVars, msgVars, imgVars, appVars>>

\* a suspended seedContent settles and its caller continues: loadData sets
\* items and clears loading, generateQuiz goes on to its question request;
\* a caller whose view has unmounted changes no view state
UISeedReturn ==
  /\ \E c \in pending : \E r \in Outcomes(c.call) :
       /\ SeedSettle(c, r)
       /\ IF c.view = viewId /\ mode = "learning" /\ c.caller = "learn"
            THEN /\ items' = SeedAfterAwait(c.existing, r).ret
                 /\ loading' = FALSE
                 /\ quizPc' = quizPc
            ELSE IF c.view = viewId /\ mode = "quiz" /\ c.caller = "quiz"
            THEN /\ quizPc' = "asking"
                 /\ UNCHANGED <<items, loading>>
            ELSE UNCHANGED <<items, loading, quizPc>>
  /\ UNCHANGED <<page, mode, viewId, subTopic, difficulty>>
  /\ UNCHANGED <<speakVars, msgVars, imgVars, appVars>>

InitUI ==
  /\ store = << >>
  /\ pending = {}
  /\ nCalls = 0
  /\ last = NoCall
  /\ page \in Pages
  /\ mode = "choice"
  /\ viewId = 0
  /\ subTopic = NoExtra
  /\ items = <<>>
  /\ loading = FALSE
  /\ difficulty = "null"
  /\ quizPc = "idle"
  /\ SpeakIdle
  /\ MsgIdle
  /\ ImgIdle
  /\ AppIdle

NextUI ==
  \/ ClickLearn
  \/ SelectSubTopic
  \/ ClearSubTopic
  \/ ClickQuiz
  \/ BackToOptions
  \/ ChooseDifficulty
  \/ QuizRespond
  \/ TryAgain
  \/ UISeedReturn

SpecUI == InitUI /\ [][NextUI]_vars

----------------------------------------------------------------------------
(* SpecSpeak: the speaking session of SpeakingView *)

MaxSessions == 3

MaxUnit == 2

\* practiceUnits.length of the model: the units 0 and 1
UnitCount == 2

\* session.close() on the handle h (0: no handle): the call is counted; an
\* open remote session starts closing and its onclose callback follows later
CloseHandle(ss, h) ==
  IF h = 0 THEN ss
  ELSE [ss EXCEPT ![h].closes = @ + 1,
                  ![h].conn = IF @ = "open" THEN "closing" ELSE @]

\* cancelAnimationFrame(f) for the frame of loop f (0: null ref): the call
\* is counted; a scheduled frame is cancelled and the loop ends
CancelFrame(ss, f) ==
  IF f = 0 THEN ss
  ELSE [ss EXCEPT ![f].cancels = @ + 1,
                  ![f].loop = IF @ = "running" THEN "cancelled" ELSE @]

\* stopSession: close and clear the handle, cancel the referenced frame,
\* setIsActive(false).  The MediaStream of startSession and the audio
\* contexts are not touched.
StopSession ==
  /\ sess' = CancelFrame(CloseHandle(sess, sessionRef), animationFrameRef)
  /\ sessionRef' = 0
  /\ animationFrameRef' = animationFrameRef
  /\ isActive' = FALSE

\* startSession of a render whose unitIndex is u, up to its first await
\* (getUserMedia); the coaching instruction it builds afterwards names
\* practiceUnits[u].  State setters do nothing once the view is unmounted.
StartSession(u) ==
  /\ Len(sess) < MaxSessions
  /\ isConnecting' = (IF mounted THEN TRUE ELSE isConnecting)
  /\ sess' = Append(sess, [mic |-> "asked", conn |-> "none", loop |-> "none",
                           closes |-> 0, cancels |-> 0])
  /\ op' = [name |-> "startSession", target |-> Len(sess) + 1, unit |-> u]

\* START STUDIO, shown while neither active nor connecting
StartClick ==
  /\ mounted /\ ~isActive /\ ~isConnecting
  /\ StartSession(unitIndex)
  /\ UNCHANGED <<mounted, proMode, isActive, unitIndex, sessionRef, animationFrameRef, timers>>
  /\ UNCHANGED <<seedVars, uiVars, msgVars, imgVars, appVars>>

\* the timer of handleNextUnit fires: startSession of the render that set it
TimerFire ==
  /\ \E u \in timers :
       /\ timers' = timers \ {u}
       /\ StartSession(u)
  /\ UNCHANGED <<mounted, proMode, isActive, unitIndex, sessionRef, animationFrameRef>>
  /\ UNCHANGED <<seedVars, uiVars, msgVars, imgVars, appVars>>

\* getUserMedia resolves: the stream is live and ai.live.connect is called
MicGranted ==
  /\ \E s \in DOMAIN sess :
       /\ sess[s].mic = "asked"
       /\ sess' = [sess EXCEPT ![s].mic = "live", ![s].conn = "connecting"]
       /\ op' = [name |-> "getUserMedia", target |-> s]
  /\ UNCHANGED <<mounted, proMode, isActive, isConnecting, unitIndex, sessionRef, animationFrameRef, timers>>
  /\ UNCHANGED <<seedVars, uiVars, msgVars, imgVars, appVars>>

\* getUserMedia rejects: startSession rejects, nothing catches it
MicDenied ==
  /\ \E s \in DOMAIN sess :
       /\ sess[s].mic = "asked"
       /\ sess' = [sess EXCEPT ![s].mic = "denied"]
       /\ op' = [name |-> "rejected", target |-> s]
  /\ UNCHANGED <<mounted, proMode, isActive, isConnecting, unitIndex, sessionRef, animationFrameRef, timers>>
  /\ UNCHANGED <<seedVars, uiVars, msgVars, imgVars, appVars>>

\* onopen: setIsConnecting(false), setIsActive(true), the microphone is
\* wired to the session and updateVolume starts its frame loop; the promise
\* of ai.live.connect resolves in the same task, and startSession resumes
\* with sessionRef.current = await sessionPromise
OnOpen ==
  /\ \E s \in DOMAIN sess :
       /\ sess[s].conn = "connecting"
       /\ sess' = [sess EXCEPT ![s].conn = "open", ![s].loop = "running"]
       /\ animationFrameRef' = s
       /\ sessionRef' = s
       /\ op' = [name |-> "onopen", target |-> s]
  /\ isConnecting' = (IF mounted THEN FALSE ELSE isConnecting)
  /\ isActive' = (IF mounted THEN TRUE ELSE isActive)
  /\ UNCHANGED <<mounted, proMode, unitIndex, timers>>
  /\ UNCHANGED <<seedVars, uiVars, msgVars, imgVars, appVars>>

\* onerror: setIsConnecting(false), setIsActive(false)
OnError ==
  /\ \E s \in DOMAIN sess :
       /\ sess[s].conn \in {"connecting", "open"}
       /\ sess' = [sess EXCEPT ![s].conn = "error"]
       /\ op' = [name |-> "onerror", target |-> s]
  /\ isConnecting' = (IF mounted THEN FALSE ELSE isConnecting)
  /\ isActive' = (IF mounted THEN FALSE ELSE isActive)
  /\ UNCHANGED <<mounted, proMode, unitIndex, sessionRef, animationFrameRef, timers>>
  /\ UNCHANGED <<seedVars, uiVars, msgVars, imgVars, appVars>>

\* onclose: setIsActive(false)
OnClose ==
  /\ \E s \in DOMAIN sess :
       /\ sess[s].conn \in {"open", "closing", "error"}
       /\ sess' = [sess EXCEPT ![s].conn = "closed"]
       /\ op' = [name |-> "onclose", target |-> s]
  /\ isActive' = (IF mounted THEN FALSE ELSE isActive)
  /\ UNCHANGED <<mounted, proMode, isConnecting, unitIndex, sessionRef, animationFrameRef, timers>>
  /\ UNCHANGED <<seedVars, uiVars, msgVars, imgVars, appVars>>

\* a scheduled frame of loop s runs updateVolume, which schedules the next one
FrameTick ==
  /\ \E s \in DOMAIN sess :
       /\ sess[s].loop = "running"
       /\ animationFrameRef' = s
       /\ op' = [name |-> "frame", target |-> s]
  /\ UNCHANGED <<mounted, proMode, isActive, isConnecting, unitIndex, sessionRef, sess, timers>>
  /\ UNCHANGED <<seedVars, uiVars, msgVars, imgVars, appVars>>

\* Stop: handleFinish runs stopSession and onFinish; the page navigates away,
\* the view unmounts and its cleanup effect runs on the refs stopSession left
HandleFinish ==
  /\ mounted /\ isActive
  /\ sess' = CancelFrame(CancelFrame(CloseHandle(sess, sessionRef), animationFrameRef), animationFrameRef)
  /\ sessionRef' = 0
  /\ isActive' = FALSE
  /\ mounted' = FALSE
  /\ op' = [name |-> "stop", target |-> sessionRef]
  /\ UNCHANGED <<proMode, isConnecting, unitIndex, animationFrameRef, timers>>
  /\ UNCHANGED <<seedVars, uiVars, msgVars, imgVars, appVars>>

\* visibilitychange with document.hidden while active: stopSession
TabHidden ==
  /\ mounted /\ isActive
  /\ StopSession
  /\ op' = [name |-> "hidden", target |-> sessionRef]
  /\ UNCHANGED <<mounted, proMode, isConnecting, unitIndex, timers>>
  /\ UNCHANGED <<seedVars, uiVars, msgVars, imgVars, appVars>>

\* Next Word (pronunciation mode, active): setUnitIndex(prev + 1),
\* stopSession, setTimeout(startSession, 400)
HandleNextUnit ==
  /\ mounted /\ proMode /\ isActive
  /\ unitIndex < MaxUnit
  /\ unitIndex' = unitIndex + 1
  /\ StopSession
  /\ timers' = timers \cup {unitIndex}
  /\ op' = [name |-> "next", target |-> sessionRef]
  /\ UNCHANGED <<mounted, proMode, isConnecting>>
  /\ UNCHANGED <<seedVars, uiVars, msgVars, imgVars, appVars>>

\* the view unmounts (Back to Options): the cleanup effect closes the handle
\* and cancels the referenced frame; timers and sessions outlive it
Unmount ==
  /\ mounted
  /\ mounted' = FALSE
  /\ sess' = CancelFrame(CloseHandle(sess, sessionRef), animationFrameRef)
  /\ op' = [name |-> "unmount", target |-> sessionRef]
  /\ UNCHANGED <<proMode, isActive, isConnecting, unitIndex, sessionRef, animationFrameRef, timers>>
  /\ UNCHANGED <<seedVars, uiVars, msgVars, imgVars, appVars>>

InitSpeak ==
  /\ store = << >>
  /\ pending = {}
  /\ nCalls = 0
  /\ last = NoCall
  /\ UIIdle
  /\ mounted = TRUE
  /\ proMode \in BOOLEAN
  /\ isActive = FALSE
  /\ isConnecting = FALSE
  /\ unitIndex = 0
  /\ sessionRef = 0
  /\ animationFrameRef = 0
  /\ sess = <<>>
  /\ timers = {}
  /\ op = NoOp
  /\ MsgIdle
  /\ ImgIdle
  /\ AppIdle

NextSpeak ==
  \/ StartClick
  \/ TimerFire
  \/ MicGranted
  \/ MicDenied
  \/ OnOpen
  \/ OnError
  \/ OnClose
  \/ FrameTick
  \/ HandleFinish
  \/ TabHidden
  \/ HandleNextUnit
  \/ Unmount

SpecSpeak == InitSpeak /\ [][NextSpeak]_vars

----------------------------------------------------------------------------
(* SpecMsg: the server messages of the first speaking session of a view *)

MaxMsgs == 3

MaxClock == 3

ClipDurations == {1, 2}

Max(a, b) == IF a >= b THEN a ELSE b

sessVars == <<mounted, proMode, isActive, isConnecting, unitIndex, sessionRef, animationFrameRef, sess, timers>>

\* message.serverContent of a server message: which transcription it
\* carries, turnComplete, the duration of the audio of modelTurn.parts[0]
\* (0: no audio), interrupted
Messages ==
  {[out |-> TRUE, inp |-> FALSE, turnComplete |-> FALSE, audio |-> 0, interrupted |-> FALSE],
   [out |-> FALSE, inp |-> TRUE, turnComplete |-> FALSE, audio |-> 0, interrupted |-> FALSE],
   [out |-> FALSE, inp |-> FALSE, turnComplete |-> TRUE, audio |-> 0, interrupted |-> FALSE],
   [out |-> FALSE, inp |-> FALSE, turnComplete |-> FALSE, audio |-> 0, interrupted |-> TRUE]}
  \cup {[out |-> FALSE, inp |-> FALSE, turnComplete |-> FALSE, audio |-> d, interrupted |-> FALSE] :
          d \in ClipDurations}

\* currentUserText and currentTutorText as the onmessage closure reads them:
\* the values of the render whose startSession opened the session, which for
\* the first session of a view are the initial states
ClosureUserText == <<>>

ClosureTutorText == <<>>

\* the time at which a clip given to source.start(when) at clock time `at`
\* starts playing: a start time in the past plays at once
PlayTime(c) == Max(c.when, c.at)

\* sourcesRef.current.forEach(s => s.stop())
StopAll(cs, tracked) ==
  [i \in DOMAIN cs |-> IF cs[i].msg \in tracked THEN [cs[i] EXCEPT !.stopped = TRUE] ELSE cs[i]]

\* the interrupted branch of onmessage for message m, on the clips cs
InterruptedBranch(cs, tracked, m) ==
  /\ clips' = StopAll(cs, tracked)
  /\ sourcesRef' = {}
  /\ nextStartTimeRef' = 0
  /\ interrupts' = interrupts + 1
  /\ lastInterrupted' = Max(lastInterrupted, m)

\* onmessage up to its await (decodeAudioData), or to its end when the
\* message carries no audio.  Partial transcripts are written as the number
\* of the message that carried them.
OnMessage ==
  /\ nMsgs < MaxMsgs
  /\ \E msg \in Messages :
       LET m == nMsgs + 1
           heardT == IF msg.out THEN Append(heard.tutor, m) ELSE heard.tutor
           heardU == IF msg.inp THEN Append(heard.user, m) ELSE heard.user
       IN /\ nMsgs' = m
          /\ IF msg.turnComplete
               THEN /\ transcriptions' = Append(transcriptions,
                                                [user |-> ClosureUserText, tutor |-> ClosureTutorText])
                    /\ currentUserText' = <<>>
                    /\ currentTutorText' = <<>>
                    /\ heard' = [user |-> <<>>, tutor |-> <<>>, turnUser |-> heardU, turnTutor |-> heardT]
               ELSE /\ transcriptions' = transcriptions
                    /\ currentTutorText' = (IF msg.out THEN Append(currentTutorText, m) ELSE currentTutorText)
                    /\ currentUserText' = (IF ~msg.out /\ msg.inp THEN Append(currentUserText, m)
                                           ELSE currentUserText)
                    /\ heard' = [heard EXCEPT !.user = heardU, !.tutor = heardT]
          /\ IF msg.audio > 0
               THEN /\ nextStartTimeRef' = Max(nextStartTimeRef, clock)
                    /\ decoding' = decoding \cup {[msg |-> m, dur |-> msg.audio, interrupted |-> msg.interrupted]}
                    /\ UNCHANGED <<sourcesRef, clips, interrupts, lastInterrupted>>
                    /\ op' = [name |-> "onmessage", target |-> m]
               ELSE IF msg.interrupted
                 THEN /\ InterruptedBranch(clips, sourcesRef, m)
                      /\ decoding' = decoding
                      /\ op' = [name |-> "interrupted", target |-> m]
                 ELSE /\ UNCHANGED <<nextStartTimeRef, decoding, sourcesRef, clips, interrupts, lastInterrupted>>
                      /\ op' = [name |-> (IF msg.turnComplete THEN "turnComplete" ELSE "onmessage"),
                                target |-> m]
  /\ UNCHANGED clock
  /\ UNCHANGED <<seedVars, uiVars, sessVars, imgVars, appVars>>

\* decodeAudioData resolves and onmessage resumes: the clip is started at
\* the cursor, the cursor moves by its duration, the source is tracked
DecodeDone ==
  /\ \E h \in decoding :
       LET clip == [msg |-> h.msg, when |-> nextStartTimeRef, at |-> clock, dur |-> h.dur,
                    epoch |-> interrupts, stopped |-> FALSE]
       IN /\ decoding' = decoding \ {h}
          /\ IF h.interrupted
               THEN /\ InterruptedBranch(Append(clips, clip), sourcesRef \cup {h.msg}, h.msg)
                    /\ op' = [name |-> "interrupted", target |-> h.msg]
               ELSE /\ clips' = Append(clips, clip)
                    /\ sourcesRef' = sourcesRef \cup {h.msg}
                    /\ nextStartTimeRef' = nextStartTimeRef + h.dur
                    /\ UNCHANGED <<interrupts, lastInterrupted>>
                    /\ op' = [name |-> "decoded", target |-> h.msg]
  /\ UNCHANGED <<clock, nMsgs, currentTutorText, currentUserText, transcriptions, heard>>
  /\ UNCHANGED <<seedVars, uiVars, sessVars, imgVars, appVars>>

\* the 'ended' event of a tracked source whose clip has played to its end
ClipEnded ==
  /\ \E i \in DOMAIN clips :
       /\ clips[i].msg \in sourcesRef
       /\ ~clips[i].stopped
       /\ clock >= PlayTime(clips[i]) + clips[i].dur
       /\ sourcesRef' = sourcesRef \ {clips[i].msg}
       /\ op' = [name |-> "ended", target |-> clips[i].msg]
  /\ UNCHANGED <<clock, nextStartTimeRef, clips, decoding, nMsgs, interrupts, lastInterrupted,
                 currentTutorText, currentUserText, transcriptions, heard>>
  /\ UNCHANGED <<seedVars, uiVars, sessVars, imgVars, appVars>>

\* the clock of the output AudioContext advances
Tick ==
  /\ clock < MaxClock
  /\ clock' = clock + 1
  /\ op' = [name |-> "tick", target |-> 0]
  /\ UNCHANGED <<nextStartTimeRef, sourcesRef, clips, decoding, nMsgs, interrupts, lastInterrupted,
                 currentTutorText, currentUserText, transcriptions, heard>>
  /\ UNCHANGED <<seedVars, uiVars, sessVars, imgVars, appVars>>

\* the first session of a mounted view, just opened
InitMsg ==
  /\ store = << >>
  /\ pending = {}
  /\ nCalls = 0
  /\ last = NoCall
  /\ UIIdle
  /\ mounted = TRUE
  /\ proMode = FALSE
  /\ isActive = TRUE
  /\ isConnecting = FALSE
  /\ unitIndex = 0
  /\ sessionRef = 1
  /\ animationFrameRef = 1
  /\ sess = <<[mic |-> "live", conn |-> "open", loop |-> "running", closes |-> 0, cancels |-> 0]>>
  /\ timers = {}
  /\ op = [name |-> "onopen", target |-> 1]
  /\ MsgIdle
  /\ ImgIdle
  /\ AppIdle

NextMsg ==
  \/ OnMessage
  \/ DecodeDone
  \/ ClipEnded
  \/ Tick

SpecMsg == InitMsg /\ [][NextMsg]_vars

----------------------------------------------------------------------------
(* SpecImage: generateEducationalImage and its callers in LearningView     *)

MaxRuns == 2

\* the items of the view whose images are generated
ImageItems == <<"chat", "chien">>

\* the substrings generateEducationalImage looks for in an error message
KeyPhrases == {"Requested entity was not found", "API key not valid"}

QuotaPhrases == {"RESOURCE_EXHAUSTED", "quota"}

\* what the image request can do: a response with an inlineData part, with
\* text parts only, or without candidates; or an error, with or without a
\* message, the message given by the looked-for substrings it contains
ImageOutcomes ==
  {[net |-> "ok", parts |-> p] : p \in {"image", "text", "missing"}}
  \cup {[net |-> "error", message |-> TRUE, phrases |-> ph] : ph \in SUBSET (KeyPhrases \cup QuotaPhrases)}
  \cup {[net |-> "error", message |-> FALSE, phrases |-> {}]}

ImageCatchNoQuota(phrases) ==
  IF phrases \cap KeyPhrases # {} THEN [kind |-> "throw", value |-> "API_KEY_RESET"]
  ELSE IF "RESOURCE_EXHAUSTED" \in phrases THEN [kind |-> "throw", value |-> "QUOTA_EXHAUSTED"]
  ELSE [kind |-> "throw", value |-> "raw"]

\* the catch block of generateEducationalImage for an error whose message
\* contains the given substrings
ImageCatch(phrases) ==
  IF phrases \cap KeyPhrases # {} THEN [kind |-> "throw", value |-> "API_KEY_RESET"]
  ELSE IF phrases \cap QuotaPhrases # {} THEN [kind |-> "throw", value |-> "QUOTA_EXHAUSTED"]
  ELSE [kind |-> "throw", value |-> "raw"]

\* generateEducationalImage once its request has settled with o; reading
\* response.candidates[0] of a response without candidates throws inside
\* the try block
generateEducationalImage(o) ==
  IF o.net = "error" THEN ImageCatch(o.phrases)
  ELSE IF o.parts = "missing" THEN ImageCatch({})
  ELSE IF o.parts = "image" THEN [kind |-> "return", value |-> "dataurl"]
  ELSE [kind |-> "return", value |-> "null"]

QuizAfterAwaitRethrow(r) ==
  IF r.net = "error" THEN [kind |-> "throw", value |-> "raw"]
  ELSE LET parsed == JSONParse(RawText(r))
       IN IF parsed.ok THEN [kind |-> "return", value |-> parsed.value]
          ELSE [kind |-> "throw", value |-> "raw"]

\* generateQuiz once its question request has settled with r
QuizAfterAwait(r) ==
  IF r.net = "error" THEN [kind |-> "return", value |-> <<>>]
  ELSE LET parsed == JSONParse(RawText(r))
       IN IF parsed.ok THEN [kind |-> "return", value |-> parsed.value]
          ELSE [kind |-> "return", value |-> <<>>]

\* analyzeHistory once its request has settled with r
AnalyzeAfterAwait(r) ==
  IF r.net = "error" THEN [kind |-> "return", value |-> "Something went wrong while analyzing the history."]
  ELSE IF r.text = NoText THEN [kind |-> "return", value |-> "I couldn't generate insights at this time."]
  ELSE [kind |-> "return", value |-> r.text]

NewRun(t, force, from) ==
  [term |-> t, force |-> force, from |-> from, pc |-> "cache", hit |-> FALSE,
   checks |-> 0, keyOk |-> FALSE, requests |-> 0]

\* handleGenerateImage is called by the image effect (current or next item)
\* or by the regenerate button (force)
ImgStart ==
  /\ Len(runs) < MaxRuns
  /\ \E i \in DOMAIN ImageItems : \E from \in {"effect", "regenerate"} :
       runs' = Append(runs, NewRun(ImageItems[i], from = "regenerate", from))
  /\ svc' = svc
  /\ UNCHANGED <<hasKey, imageStore, needsApiKey, prep>>
  /\ UNCHANGED <<seedVars, uiVars, speakVars, msgVars, appVars>>

\* handleOpenKeySelector: openSelectKey resolves (a credential was selected
\* or not), setNeedsApiKey(false), handleGenerateImage(currentIndex)
OpenKeySelector ==
  /\ needsApiKey
  /\ Len(runs) < MaxRuns
  /\ hasKey' \in BOOLEAN
  /\ needsApiKey' = FALSE
  /\ runs' = Append(runs, NewRun(ImageItems[1], FALSE, "keySelector"))
  /\ svc' = svc
  /\ UNCHANGED <<imageStore, prep>>
  /\ UNCHANGED <<seedVars, uiVars, speakVars, msgVars, appVars>>

\* handleGenerateImage after await getStoredImage: a cached image without
\* force ends the run
ImgCacheRead ==
  /\ \E r \in DOMAIN runs :
       /\ runs[r].pc = "cache"
       /\ runs' = [runs EXCEPT ![r] =
                     IF runs[r].term \in imageStore /\ ~runs[r].force
                       THEN [@ EXCEPT !.pc = "done", !.hit = TRUE]
                       ELSE [@ EXCEPT !.pc = "check"]]
  /\ svc' = svc
  /\ UNCHANGED <<hasKey, imageStore, needsApiKey, prep>>
  /\ UNCHANGED <<seedVars, uiVars, speakVars, msgVars, appVars>>

ImgKeyCheckSkipped ==
  /\ \E r \in DOMAIN runs :
       /\ runs[r].pc = "check"
       /\ runs' = [runs EXCEPT ![r] = [@ EXCEPT !.pc = "request", !.requests = @ + 1]]
       /\ needsApiKey' = FALSE
  /\ svc' = svc
  /\ UNCHANGED <<hasKey, imageStore, prep>>
  /\ UNCHANGED <<seedVars, uiVars, speakVars, msgVars, appVars>>

\* handleGenerateImage after await hasSelectedApiKey: without a credential
\* setNeedsApiKey(true) and return, else generateEducationalImage is called
ImgKeyCheck ==
  /\ \E r \in DOMAIN runs :
       /\ runs[r].pc = "check"
       /\ IF hasKey
            THEN /\ runs' = [runs EXCEPT ![r] = [@ EXCEPT !.pc = "request", !.checks = @ + 1,
                                                          !.keyOk = TRUE, !.requests = @ + 1]]
                 /\ needsApiKey' = FALSE
            ELSE /\ runs' = [runs EXCEPT ![r] = [@ EXCEPT !.pc = "done", !.checks = @ + 1,
                                                          !.keyOk = FALSE]]
                 /\ needsApiKey' = TRUE
  /\ svc' = svc
  /\ UNCHANGED <<hasKey, imageStore, prep>>
  /\ UNCHANGED <<seedVars, uiVars, speakVars, msgVars, appVars>>

\* the image request settles: generateEducationalImage returns or throws,
\* handleGenerateImage stores a returned image, turns API_KEY_RESET into
\* needsApiKey and drops any other error
ImgRespond ==
  /\ \E r \in DOMAIN runs : \E o \in ImageOutcomes :
       LET res == generateEducationalImage(o)
       IN /\ runs[r].pc = "request"
          /\ runs' = [runs EXCEPT ![r].pc = "done"]
          /\ imageStore' = (IF res = [kind |-> "return", value |-> "dataurl"]
                              THEN imageStore \cup {runs[r].term} ELSE imageStore)
          /\ needsApiKey' = (IF res = [kind |-> "throw", value |-> "API_KEY_RESET"]
                               THEN TRUE ELSE needsApiKey)
  /\ UNCHANGED <<hasKey, prep, svc>>
  /\ UNCHANGED <<seedVars, uiVars, speakVars, msgVars, appVars>>

\* Pre-Prepare All: handlePrepareAll up to its first await settles; with a
\* credential the loop starts, without one openSelectKey is awaited
PrepareAll ==
  /\ prep.pc = "idle"
  /\ prep' = (IF hasKey THEN [pc |-> "loop", i |-> 1, run |-> 0, stop |-> FALSE]
              ELSE [prep EXCEPT !.pc = "select"])
  /\ svc' = svc
  /\ UNCHANGED <<hasKey, imageStore, runs, needsApiKey>>
  /\ UNCHANGED <<seedVars, uiVars, speakVars, msgVars, appVars>>

\* handlePrepareAll after openSelectKey and the second hasSelectedApiKey
PrepKeySelected ==
  /\ prep.pc = "select"
  /\ hasKey' \in BOOLEAN
  /\ prep' = (IF hasKey' THEN [pc |-> "loop", i |-> 1, run |-> 0, stop |-> FALSE]
              ELSE [prep EXCEPT !.pc = "idle"])
  /\ svc' = svc
  /\ UNCHANGED <<imageStore, runs, needsApiKey>>
  /\ UNCHANGED <<seedVars, uiVars, speakVars, msgVars, appVars>>

\* one turn of the loop of handlePrepareAll: stop at the end or on
\* stopPrepRef, skip a cached item, else await handleGenerateImage(i)
PrepStep ==
  /\ prep.pc = "loop"
  /\ IF prep.i > Len(ImageItems) \/ prep.stop
       THEN /\ prep' = [prep EXCEPT !.pc = "idle"]
            /\ runs' = runs
       ELSE IF ImageItems[prep.i] \in imageStore
       THEN /\ prep' = [prep EXCEPT !.i = @ + 1]
            /\ runs' = runs
       ELSE /\ Len(runs) < MaxRuns
            /\ runs' = Append(runs, NewRun(ImageItems[prep.i], FALSE, "prepare"))
            /\ prep' = [prep EXCEPT !.pc = "wait", !.run = Len(runs) + 1]
  /\ svc' = svc
  /\ UNCHANGED <<hasKey, imageStore, needsApiKey>>
  /\ UNCHANGED <<seedVars, uiVars, speakVars, msgVars, appVars>>

\* the awaited handleGenerateImage of the loop has ended and the delay has passed
PrepResume ==
  /\ prep.pc = "wait"
  /\ runs[prep.run].pc = "done"
  /\ prep' = [prep EXCEPT !.pc = "loop", !.i = @ + 1]
  /\ svc' = svc
  /\ UNCHANGED <<hasKey, imageStore, runs, needsApiKey>>
  /\ UNCHANGED <<seedVars, uiVars, speakVars, msgVars, appVars>>

\* a navigation button sets stopPrepRef.current
NavStop ==
  /\ ~prep.stop
  /\ prep' = [prep EXCEPT !.stop = TRUE]
  /\ svc' = svc
  /\ UNCHANGED <<hasKey, imageStore, runs, needsApiKey>>
  /\ UNCHANGED <<seedVars, uiVars, speakVars, msgVars, appVars>>

InitImage ==
  /\ store = << >>
  /\ pending = {}
  /\ nCalls = 0
  /\ last = NoCall
  /\ UIIdle
  /\ SpeakIdle
  /\ MsgIdle
  /\ hasKey \in BOOLEAN
  /\ imageStore = {}
  /\ runs = <<>>
  /\ needsApiKey = FALSE
  /\ prep = NoPrep
  /\ svc = NoService
  /\ AppIdle

NextImage ==
  \/ ImgStart
  \/ OpenKeySelector
  \/ ImgCacheRead
  \/ ImgKeyCheck
  \/ ImgRespond
  \/ PrepareAll
  \/ PrepKeySelected
  \/ PrepStep
  \/ PrepResume
  \/ NavStop

SpecImage == InitImage /\ [][NextImage]_vars

----------------------------------------------------------------------------
(* SpecService: generateEducationalImage, generateQuiz and analyzeHistory  *)
(* called as exported functions, observed when their request settles      *)

MaxServiceCalls == 3

imgState == <<hasKey, imageStore, runs, needsApiKey, prep>>

\* the request of a generateEducationalImage call settles
ImageReturn ==
  /\ svc.n < MaxServiceCalls
  /\ \E o \in ImageOutcomes :
       svc' = [fn |-> "generateEducationalImage", input |-> o,
               result |-> generateEducationalImage(o), n |-> svc.n + 1]
  /\ UNCHANGED imgState
  /\ UNCHANGED <<seedVars, uiVars, speakVars, msgVars, appVars>>

\* the question request of a generateQuiz call settles
QuizReturn ==
  /\ svc.n < MaxServiceCalls
  /\ \E r \in Outcomes(1) :
       svc' = [fn |-> "generateQuiz", input |-> r, result |-> QuizAfterAwait(r), n |-> svc.n + 1]
  /\ UNCHANGED imgState
  /\ UNCHANGED <<seedVars, uiVars, speakVars, msgVars, appVars>>

\* the request of an analyzeHistory call settles
AnalyzeReturn ==
  /\ svc.n < MaxServiceCalls
  /\ \E r \in Outcomes(1) :
       svc' = [fn |-> "analyzeHistory", input |-> r, result |-> AnalyzeAfterAwait(r), n |-> svc.n + 1]
  /\ UNCHANGED imgState
  /\ UNCHANGED <<seedVars, uiVars, speakVars, msgVars, appVars>>

NextService ==
  \/ ImageReturn
  \/ QuizReturn
  \/ AnalyzeReturn

SpecService == Init /\ [][NextService]_vars

----------------------------------------------------------------------------
(* SpecHistory: stars, the history log and its aggregates                  *)

MaxEntries == 3

MaxStars == 10

MaxDays == 2

MASTERY_SCORE == 500

Min(a, b) == IF a <= b THEN a ELSE b

\* Math.round of the non-negative quotient num / den: the nearest integer,
\* a half rounded up
MathRound(num, den) == (2 * num + den) \div (2 * den)

PowerRatingUnclamped(points) == MathRound(points * 100, MASTERY_SCORE)

\* Math.min(Math.round((points / 500) * 100), 100)
PowerRating(points) == Min(MathRound(points * 100, MASTERY_SCORE), 100)

\* the reduce of subcategoryStats and of performanceStats: an object from
\* subcategory to the sum of the scores, built entry by entry
RECURSIVE StatsFold(_, _)
StatsFold(h, acc) ==
  IF h = <<>> THEN acc
  ELSE LET item == Head(h)
           k == item.subcategory
           old == IF k \in DOMAIN acc THEN acc[k] ELSE 0
       IN StatsFold(Tail(h), [x \in (DOMAIN acc) \cup {k} |-> IF x = k THEN old + item.score ELSE acc[x]])

subcategoryStats(h) == StatsFold(h, << >>)

\* stats[name] || 0
StatOf(stats, name) == IF name \in DOMAIN stats THEN stats[name] ELSE 0

FindIndexNone(acc, field, key) == 0

\* acc.find(d => d.date === date): the index of the first such element, 0 if none
FindIndex(acc, field, key) ==
  IF \E i \in 1..Len(acc) : acc[i][field] = key
    THEN CHOOSE i \in 1..Len(acc) : acc[i][field] = key /\ \A j \in 1..(i - 1) : acc[j][field] # key
    ELSE 0

\* the reduce of dailyData, before its slice
RECURSIVE DailyFold(_, _)
DailyFold(h, acc) ==
  IF h = <<>> THEN acc
  ELSE LET item == Head(h)
           i == FindIndex(acc, "date", item.date)
       IN DailyFold(Tail(h),
                    IF i # 0 THEN [acc EXCEPT ![i].score = @ + item.score]
                    ELSE Append(acc, [date |-> item.date, score |-> item.score]))

\* Array.prototype.slice(-n)
SliceLast(q, n) == IF Len(q) <= n THEN q ELSE SubSeq(q, Len(q) - n + 1, Len(q))

dailyData(h) == SliceLast(DailyFold(h, <<>>), 7)

\* the reduce of categoryData
RECURSIVE CategoryFold(_, _)
CategoryFold(h, acc) ==
  IF h = <<>> THEN acc
  ELSE LET item == Head(h)
           i == FindIndex(acc, "name", item.category)
       IN CategoryFold(Tail(h),
                       IF i # 0 THEN [acc EXCEPT ![i].value = @ + item.score]
                       ELSE Append(acc, [name |-> item.category, value |-> item.score]))

categoryData(h) == CategoryFold(h, <<>>)

\* the effect of App that follows every change of stars or history
Persist(st, h) == [stars |-> NumberToString(st), history |-> Stringify(h)]

\* addLivePoints(points) and the effect that follows
addLivePoints(points) ==
  /\ stars' = stars + points
  /\ history' = history
  /\ persisted' = Persist(stars + points, history)

\* the entry recordHistory builds from the statistics of the current render
HistoryEntry(points, subName, catName, today) ==
  LET currentPoints == StatOf(subcategoryStats(history), subName)
      finalPoints == currentPoints + points
  IN [date |-> today, category |-> catName, subcategory |-> subName,
      score |-> points, powerRating |-> PowerRating(finalPoints)]

recordHistoryOverwrite(points, subName, catName, today) ==
  /\ history' = IF history = <<>> THEN <<HistoryEntry(points, subName, catName, today)>>
                ELSE [history EXCEPT ![Len(history)] = HistoryEntry(points, subName, catName, today)]
  /\ stars' = stars
  /\ persisted' = Persist(stars, history')

\* recordHistory(points, subName, catName) and the effect that follows
recordHistory(points, subName, catName, today) ==
  /\ history' = Append(history, HistoryEntry(points, subName, catName, today))
  /\ stars' = stars
  /\ persisted' = Persist(stars, history')

\* the topics of the model, each with the category of its route; the
\* vocabulary topic animals and the speaking topic s_animals have one name
Topics ==
  { [name |-> "Les Animaux", type |-> "VOCABULARY"],
    [name |-> "Les Articles", type |-> "GRAMMAR"],
    [name |-> "Les Animaux", type |-> "SPEAKING"] }

\* session totals given to recordHistory: none, a total that is no multiple
\* of 5, ten pronunciation turns
Scores == {0, 3, 250}

\* the points of one earning event: quiz 10, 20 or 35, speaking 15 or 25
PointValues == {10, 15, 20, 25, 35}

Days == 1..MaxDays

AddLivePointsCall ==
  /\ \E p \in PointValues :
       /\ stars + p <= MaxStars
       /\ addLivePoints(p)
  /\ UNCHANGED <<seedVars, uiVars, speakVars, msgVars, imgVars, playVars, learnVars>>

RecordHistoryCall ==
  /\ Len(history) < MaxEntries
  /\ \E p \in Scores, t \in Topics, d \in Days : recordHistory(p, t.name, t.type, d)
  /\ UNCHANGED <<seedVars, uiVars, speakVars, msgVars, imgVars, playVars, learnVars>>

NextHistory == AddLivePointsCall \/ RecordHistoryCall

SpecHistory == Init /\ [][NextHistory]_vars

----------------------------------------------------------------------------
(* SpecPlay: quizzes and speaking sessions played through the pages of the *)
(* App.  The topic of the quiz has cached content, so generateQuiz makes   *)
(* no seedContent call; the resources of a speaking session are the        *)
(* subject of SpecSpeak and are left out here.                             *)

MaxVisits == 3

MaxTurns == 2

\* the routes played: a vocabulary topic and a speaking topic
PlayPages ==
  { [sub |-> "animals", type |-> "VOCABULARY"],
    [sub |-> "s_intro", type |-> "SPEAKING"] }

\* the sessions of the model are played on one day
Today == 1

\* sub.name of a route
SubName(sub) == IF sub = "animals" THEN "Les Animaux" ELSE "Se Presenter"

\* a QuizQuestion: the options and the correct answer
Question(answer) == [options |-> <<"oui", "non">>, correctAnswer |-> answer]

\* what the question request can do: fail, or answer with a text that is a
\* list of questions, an empty list, an object, a fenced text or nothing
QuizOutcomes ==
  {[net |-> "error", text |-> NoText]}
  \cup {[net |-> "ok", text |-> t] :
          t \in { ArrayText(<<Question("oui"), Question("non")>>),
                  ArrayText(<<>>),
                  [pre |-> "", body |-> [kind |-> "object"], post |-> ""],
                  [pre |-> Fence, body |-> [kind |-> "garbage"], post |-> Fence],
                  NoText }}

\* a JavaScript string used as a condition
Truthy(str) == str # "null" /\ str # ""

\* pointsMap[difficulty] || 10
pointsMap(d) == IF d = "easy" THEN 10 ELSE IF d = "medium" THEN 20 ELSE IF d = "hard" THEN 35 ELSE 10

\* what QuizView renders: the level buttons, the loading screen, the empty
\* screen with Try Again, or the question at currentIndex
QuizScreen ==
  IF ~(mode = "quiz" /\ page # NoPage /\ page.type # "SPEAKING") THEN "none"
  ELSE IF difficulty = "null" THEN "levels"
  ELSE IF loading THEN "loading"
  ELSE IF Len(questions) = 0 THEN "empty"
  ELSE IF currentIndex + 1 \in DOMAIN questions THEN "question"
  ELSE "undefined question"

\* the view of the page unmounts or a new one mounts: its state is the initial one
ViewReset ==
  /\ difficulty' = "null"
  /\ loading' = FALSE
  /\ quizPc' = "idle"
  /\ questions' = <<>>
  /\ currentIndex' = 0
  /\ selectedOption' = "null"
  /\ isCorrect' = "null"
  /\ sessionScore' = 0
  /\ pointsEarned' = 0
  /\ tally' = NoTally
  /\ isActive' = FALSE
  /\ isConnecting' = FALSE

\* the state of the mounted view
viewVars == <<questions, currentIndex, selectedOption, isCorrect, sessionScore, pointsEarned, tally>>

\* no service call returned and no onFinish was called in this step
Quiet ==
  /\ svc' = NoService
  /\ finished' = NoFinish

playRest == <<seedVars, subTopic, items, mounted, proMode, unitIndex, sessionRef, animationFrameRef,
              sess, timers, op, msgVars, hasKey, imageStore, runs, needsApiKey, prep, learnVars>>

\* a topic is opened from the map: SubCategoryPage mounts in mode choice
PlayVisit ==
  /\ page = NoPage
  /\ page' \in PlayPages
  /\ mode' = "choice"
  /\ UNCHANGED <<viewId, difficulty, loading, quizPc, isActive, isConnecting>>
  /\ Quiet
  /\ UNCHANGED <<playRest, ledgerVars, viewVars>>

\* the buttons of the choice screen: Quiz mounts QuizView, or SpeakingView
\* in quiz mode on a speaking route; Conversation mounts SpeakingView
PlayOpen ==
  /\ page # NoPage /\ mode = "choice" /\ viewId < MaxVisits
  /\ mode' \in IF page.type = "SPEAKING" THEN {"speaking", "quiz"} ELSE {"quiz"}
  /\ viewId' = viewId + 1
  /\ ViewReset
  /\ Quiet
  /\ UNCHANGED page
  /\ UNCHANGED <<playRest, ledgerVars>>

\* Back to Options: setMode('choice'), the view unmounts
PlayBack ==
  /\ page # NoPage /\ mode \in {"quiz", "speaking"}
  /\ mode' = "choice"
  /\ ViewReset
  /\ Quiet
  /\ UNCHANGED <<page, viewId>>
  /\ UNCHANGED <<playRest, ledgerVars>>

\* a level button: setDifficulty; the effect runs fetchQuestions, which
\* sets loading and awaits generateQuiz
QuizChoose ==
  /\ QuizScreen = "levels"
  /\ Len(getStoredContent(StorageId(page.sub, NoExtra))) # 0
  /\ \E d \in {"easy", "medium", "hard"} : difficulty' = d
  /\ loading' = TRUE
  /\ quizPc' = "asking"
  /\ UNCHANGED <<page, mode, viewId, isActive, isConnecting>>
  /\ Quiet
  /\ UNCHANGED <<playRest, ledgerVars, viewVars>>

\* generateQuiz settles and fetchQuestions goes on: setQuestions(data)
\* unless the call threw, then setLoading(false); data that is no array
\* makes the next render throw and the page goes blank
QuizFetched ==
  /\ mode = "quiz" /\ quizPc = "asking"
  /\ \E r \in QuizOutcomes :
       LET res == QuizAfterAwait(r)
       IN /\ svc' = [fn |-> "generateQuiz", input |-> r, result |-> res, n |-> svc.n]
          /\ IF res.kind = "throw" THEN questions' = questions /\ mode' = mode
             ELSE IF res.value = <<>> THEN questions' = <<>> /\ mode' = mode
             ELSE IF res.value.kind = "array" THEN questions' = res.value.items /\ mode' = mode
             ELSE questions' = <<>> /\ mode' = "crashed"
  /\ loading' = FALSE
  /\ quizPc' = "done"
  /\ UNCHANGED <<page, viewId, difficulty, isActive, isConnecting>>
  /\ finished' = NoFinish
  /\ UNCHANGED <<currentIndex, selectedOption, isCorrect, sessionScore, pointsEarned, tally>>
  /\ UNCHANGED <<playRest, ledgerVars>>

\* Try Again of the empty screen: setDifficulty(null)
QuizTryAgain ==
  /\ QuizScreen = "empty"
  /\ difficulty' = "null"
  /\ quizPc' = "idle"
  /\ UNCHANGED <<page, mode, viewId, loading, isActive, isConnecting>>
  /\ Quiet
  /\ UNCHANGED <<playRest, ledgerVars, viewVars>>

HandleOptionClickAgain ==
  /\ QuizScreen = "question"
  /\ LET current == questions[currentIndex + 1]
         earned == pointsMap(difficulty)
     IN \E i \in DOMAIN current.options :
          LET option == current.options[i]
              correct == option = current.correctAnswer
          IN /\ selectedOption' = option
             /\ isCorrect' = correct
             /\ IF correct
                  THEN /\ sessionScore' = sessionScore + earned
                       /\ addLivePoints(earned)
                       /\ tally' = [awarded |-> tally.awarded + earned, correct |-> tally.correct + 1]
                  ELSE UNCHANGED <<sessionScore, ledgerVars, tally>>
  /\ Quiet
  /\ UNCHANGED <<page, mode, viewId, difficulty, loading, quizPc, isActive, isConnecting>>
  /\ UNCHANGED <<questions, currentIndex, pointsEarned>>
  /\ UNCHANGED playRest

\* an option button, enabled while selectedOption is null: handleOptionClick
HandleOptionClick ==
  /\ QuizScreen = "question"
  /\ selectedOption = "null"
  /\ ~Truthy(selectedOption)
  /\ LET current == questions[currentIndex + 1]
         earned == pointsMap(difficulty)
     IN \E i \in DOMAIN current.options :
          LET option == current.options[i]
              correct == option = current.correctAnswer
          IN /\ selectedOption' = option
             /\ isCorrect' = correct
             /\ IF correct
                  THEN /\ sessionScore' = sessionScore + earned
                       /\ addLivePoints(earned)
                       /\ tally' = [awarded |-> tally.awarded + earned, correct |-> tally.correct + 1]
                  ELSE UNCHANGED <<sessionScore, ledgerVars, tally>>
  /\ Quiet
  /\ UNCHANGED <<page, mode, viewId, difficulty, loading, quizPc, isActive, isConnecting>>
  /\ UNCHANGED <<questions, currentIndex, pointsEarned>>
  /\ UNCHANGED playRest

\* onFinish of the page (handleFinishQuiz, handleFinishSpeaking):
\* recordHistory, then navigate('/stats'); the page and its view unmount
FinishSession(total) ==
  /\ recordHistory(total, SubName(page.sub), page.type, Today)
  /\ finished' = [view |-> viewId, total |-> total, awarded |-> tally.awarded,
                  correct |-> tally.correct, difficulty |-> difficulty]
  /\ page' = NoPage
  /\ mode' = "choice"
  /\ ViewReset

\* the button of the feedback panel, shown once an option is selected:
\* handleNext moves to the next question or calls onFinish(sessionScore)
HandleNext ==
  /\ QuizScreen = "question"
  /\ Truthy(selectedOption)
  /\ IF currentIndex < Len(questions) - 1
       THEN /\ currentIndex' = currentIndex + 1
            /\ selectedOption' = "null"
            /\ isCorrect' = "null"
            /\ UNCHANGED <<page, mode, difficulty, loading, quizPc, isActive, isConnecting>>
            /\ finished' = NoFinish
            /\ UNCHANGED <<questions, sessionScore, pointsEarned, tally, ledgerVars>>
       ELSE FinishSession(sessionScore)
  /\ svc' = NoService
  /\ UNCHANGED viewId
  /\ UNCHANGED playRest

\* START STUDIO, shown while the view is neither active nor connecting
SpeakStart ==
  /\ page # NoPage /\ page.type = "SPEAKING" /\ mode \in {"quiz", "speaking"}
  /\ ~isActive /\ ~isConnecting
  /\ isConnecting' = TRUE
  /\ UNCHANGED <<page, mode, viewId, difficulty, loading, quizPc, isActive>>
  /\ Quiet
  /\ UNCHANGED <<playRest, ledgerVars, viewVars>>

\* onopen of the session: setIsActive(true), setIsConnecting(false)
SpeakOpen ==
  /\ page # NoPage /\ page.type = "SPEAKING" /\ mode \in {"quiz", "speaking"}
  /\ isConnecting
  /\ isActive' = TRUE
  /\ isConnecting' = FALSE
  /\ UNCHANGED <<page, mode, viewId, difficulty, loading, quizPc>>
  /\ Quiet
  /\ UNCHANGED <<playRest, ledgerVars, viewVars>>

\* a message with turnComplete reaches the open session: points are earned
SpeakTurn ==
  /\ page # NoPage /\ page.type = "SPEAKING" /\ mode \in {"quiz", "speaking"}
  /\ isActive
  /\ LET earned == IF proMode THEN 25 ELSE 15
     IN /\ pointsEarned < MaxTurns * earned
        /\ pointsEarned' = pointsEarned + earned
        /\ addLivePoints(earned)
        /\ tally' = [awarded |-> tally.awarded + earned, correct |-> tally.correct]
  /\ Quiet
  /\ UNCHANGED <<page, mode, viewId, difficulty, loading, quizPc, isActive, isConnecting>>
  /\ UNCHANGED <<questions, currentIndex, selectedOption, isCorrect, sessionScore>>
  /\ UNCHANGED playRest

\* the tab is hidden while the session is active: stopSession
SpeakHidden ==
  /\ page # NoPage /\ page.type = "SPEAKING" /\ mode \in {"quiz", "speaking"}
  /\ isActive
  /\ isActive' = FALSE
  /\ UNCHANGED <<page, mode, viewId, difficulty, loading, quizPc, isConnecting>>
  /\ Quiet
  /\ UNCHANGED <<playRest, ledgerVars, viewVars>>

\* Stop, shown while the session is active: handleFinish runs stopSession
\* and onFinish(pointsEarned)
SpeakStop ==
  /\ page # NoPage /\ page.type = "SPEAKING" /\ mode \in {"quiz", "speaking"}
  /\ isActive
  /\ FinishSession(pointsEarned)
  /\ svc' = NoService
  /\ UNCHANGED viewId
  /\ UNCHANGED playRest

\* the App on the map, nothing earned yet, the quiz topic already learnt
InitPlay ==
  /\ store = SetItem(<< >>, StorageId("animals", NoExtra), Stringify(Batch(0, 1)))
  /\ pending = {}
  /\ nCalls = 0
  /\ last = NoCall
  /\ UIIdle
  /\ SpeakIdle
  /\ MsgIdle
  /\ ImgIdle
  /\ AppIdle

NextPlay ==
  \/ PlayVisit
  \/ PlayOpen
  \/ PlayBack
  \/ QuizChoose
  \/ QuizFetched
  \/ QuizTryAgain
  \/ HandleOptionClick
  \/ HandleNext
  \/ SpeakStart
  \/ SpeakOpen
  \/ SpeakTurn
  \/ SpeakHidden
  \/ SpeakStop

SpecPlay == InitPlay /\ [][NextPlay]_vars

----------------------------------------------------------------------------
(* SpecLearn: the cards of one LearningView whose items have loaded: the   *)
(* navigation buttons, the overview card, the image effect and the calls   *)
(* of handleGenerateImage it and the buttons start                         *)

\* the number of image lookups and handleGenerateImage calls under way at once
MaxLearnRuns == 2

Card(french) == [french |-> french, isOverview |-> FALSE]

OverviewCard(french) == [french |-> french, isOverview |-> TRUE]

\* the item lists a view can have loaded
LearnLists ==
  { <<OverviewCard("le")>>,
    <<OverviewCard("le"), Card("chat")>>,
    <<Card("chat"), Card("chien")>> }

\* the outcomes of the image request that handleGenerateImage tells apart:
\* an image, no image, an error turned into API_KEY_RESET, any other error
LearnOutcomes ==
  { [net |-> "ok", parts |-> "image"],
    [net |-> "ok", parts |-> "text"],
    [net |-> "error", message |-> TRUE, phrases |-> {"API key not valid"}],
    [net |-> "error", message |-> FALSE, phrases |-> {}] }

\* items[i]
ItemAt(its, i) == its[i + 1]

LearningMounted == mode = "learning"

\* what the view renders: the loading screen, the empty screen, nothing
\* when items[currentIndex] is undefined, the overview layout or a card
\* with its navigation footer
LearnScreen ==
  IF ~LearningMounted THEN "none"
  ELSE IF loading THEN "loading"
  ELSE IF Len(items) = 0 THEN "empty"
  ELSE IF currentIndex >= Len(items) THEN "nothing"
  ELSE IF ItemAt(items, currentIndex).isOverview THEN "overview"
  ELSE "card"

\* a call of handleGenerateImage(index, force) made by the closure of the
\* render whose currentIndex was seen, or the getStoredImage lookup of the
\* image effect that may lead to it (pc lookup); awaited marks the call
\* that handlePrepareAll awaits
LearnRun(its, index, force, seen, awaited, pc) ==
  [index |-> index, term |-> ItemAt(its, index).french, force |-> force,
   seen |-> seen, awaited |-> awaited, pc |-> pc]

\* the image effect of a render with currentIndex i: a lookup for the
\* current item and one for the next item
ImageEffect(its, i) ==
  IF i >= Len(its) THEN <<>>
  ELSE <<LearnRun(its, i, FALSE, i, FALSE, "lookup")>>
       \o (IF i + 1 < Len(its) THEN <<LearnRun(its, i + 1, FALSE, i, FALSE, "lookup")>> ELSE <<>>)

RemoveAt(s, k) == SubSeq(s, 1, k - 1) \o SubSeq(s, k + 1, Len(s))

\* the finally block of handleGenerateImage: setGeneratingImage(false) when
\* the index is the currentIndex of the closure
FinallyFlag(run) ==
  IF LearningMounted /\ run.index = run.seen THEN FALSE ELSE generatingImage

\* handlePrepareAll goes on to its delay once the call it awaits has ended
PrepAfter(run) == IF run.awaited THEN [prep EXCEPT !.pc = "delay"] ELSE prep

learnRest == <<seedVars, page, viewId, subTopic, items, loading, difficulty, quizPc, speakVars, msgVars, svc,
               ledgerVars, questions, selectedOption, isCorrect, sessionScore, pointsEarned, tally, finished>>

\* the Back button of the navigation footer
LearnBack ==
  /\ LearnScreen = "card"
  /\ currentIndex # 0
  /\ currentIndex' = Max(0, currentIndex - 1)
  /\ Len(runs) + Len(ImageEffect(items, currentIndex')) <= MaxLearnRuns
  /\ runs' = runs \o ImageEffect(items, currentIndex')
  /\ prep' = [prep EXCEPT !.stop = TRUE]
  /\ UNCHANGED <<mode, generatingImage, hasKey, imageStore, needsApiKey>>
  /\ UNCHANGED learnRest

\* the Next button of the navigation footer: onComplete on the last card,
\* else the next card. onComplete unmounts the view: its state is gone and
\* the calls still under way are dropped from the model, as they can only
\* write the image store that no mounted view reads any more
LearnNext ==
  /\ LearnScreen = "card"
  /\ IF currentIndex = Len(items) - 1
       THEN /\ mode' = "choice"
            /\ generatingImage' = FALSE
            /\ needsApiKey' = FALSE
            /\ runs' = <<>>
            /\ prep' = NoPrep
            /\ UNCHANGED currentIndex
       ELSE /\ currentIndex' = currentIndex + 1
            /\ Len(runs) + Len(ImageEffect(items, currentIndex')) <= MaxLearnRuns
            /\ runs' = runs \o ImageEffect(items, currentIndex')
            /\ prep' = [prep EXCEPT !.stop = TRUE]
            /\ UNCHANGED <<mode, generatingImage, needsApiKey>>
  /\ UNCHANGED <<hasKey, imageStore>>
  /\ UNCHANGED learnRest

\* the Start Learning button of the overview layout: setCurrentIndex(1)
StartLearning ==
  /\ LearnScreen = "overview"
  /\ currentIndex' = 1
  /\ Len(runs) + Len(ImageEffect(items, currentIndex')) <= MaxLearnRuns
  /\ runs' = runs \o ImageEffect(items, currentIndex')
  /\ UNCHANGED <<mode, generatingImage, hasKey, imageStore, needsApiKey, prep>>
  /\ UNCHANGED learnRest

\* the Redraw Illustration button: handleGenerateImage(currentIndex, true)
Redraw ==
  /\ LearnScreen = "card"
  /\ ~generatingImage
  /\ Len(runs) < MaxLearnRuns
  /\ runs' = Append(runs, LearnRun(items, currentIndex, TRUE, currentIndex, FALSE, "cache"))
  /\ UNCHANGED <<mode, currentIndex, generatingImage, hasKey, imageStore, needsApiKey, prep>>
  /\ UNCHANGED learnRest

\* handleOpenKeySelector: openSelectKey resolves, setNeedsApiKey(false),
\* handleGenerateImage(currentIndex)
LearnOpenKeySelector ==
  /\ LearnScreen = "card"
  /\ ~generatingImage
  /\ needsApiKey
  /\ Len(runs) < MaxLearnRuns
  /\ hasKey' \in BOOLEAN
  /\ needsApiKey' = FALSE
  /\ runs' = Append(runs, LearnRun(items, currentIndex, FALSE, currentIndex, FALSE, "cache"))
  /\ UNCHANGED <<mode, currentIndex, generatingImage, imageStore, prep>>
  /\ UNCHANGED learnRest

\* getStoredImage of the image effect resolves: a cached image is shown,
\* else handleGenerateImage is called
LearnLookup ==
  /\ \E r \in DOMAIN runs :
       /\ runs[r].pc = "lookup"
       /\ runs' = (IF runs[r].term \in imageStore THEN RemoveAt(runs, r)
                   ELSE [runs EXCEPT ![r].pc = "cache"])
  /\ UNCHANGED <<mode, currentIndex, generatingImage, hasKey, imageStore, needsApiKey, prep>>
  /\ UNCHANGED learnRest

\* handleGenerateImage after await getStoredImage: a cached image without
\* force ends the call
LearnCacheRead ==
  /\ \E r \in DOMAIN runs :
       /\ runs[r].pc = "cache"
       /\ IF runs[r].term \in imageStore /\ ~runs[r].force
            THEN /\ runs' = RemoveAt(runs, r)
                 /\ prep' = PrepAfter(runs[r])
            ELSE /\ runs' = [runs EXCEPT ![r].pc = "check"]
                 /\ prep' = prep
  /\ UNCHANGED <<mode, currentIndex, generatingImage, hasKey, imageStore, needsApiKey>>
  /\ UNCHANGED learnRest

\* handleGenerateImage after await hasSelectedApiKey: without a credential
\* setNeedsApiKey(true), return and the finally block; with one
\* setNeedsApiKey(false), setGeneratingImage(true) when the index is the
\* currentIndex of the closure, and the image request is made
LearnKeyCheck ==
  /\ \E r \in DOMAIN runs :
       /\ runs[r].pc = "check"
       /\ IF hasKey
            THEN /\ runs' = [runs EXCEPT ![r].pc = "request"]
                 /\ needsApiKey' = (IF LearningMounted THEN FALSE ELSE needsApiKey)
                 /\ generatingImage' = (IF LearningMounted /\ runs[r].index = runs[r].seen
                                          THEN TRUE ELSE generatingImage)
                 /\ prep' = prep
            ELSE /\ runs' = RemoveAt(runs, r)
                 /\ needsApiKey' = (IF LearningMounted THEN TRUE ELSE needsApiKey)
                 /\ generatingImage' = FinallyFlag(runs[r])
                 /\ prep' = PrepAfter(runs[r])
  /\ UNCHANGED <<mode, currentIndex, hasKey, imageStore>>
  /\ UNCHANGED learnRest

\* the image request settles: a returned image is saved and shown,
\* API_KEY_RESET sets needsApiKey, then the finally block
LearnRespond ==
  /\ \E r \in DOMAIN runs : \E o \in LearnOutcomes :
       LET res == generateEducationalImage(o)
       IN /\ runs[r].pc = "request"
          /\ runs' = RemoveAt(runs, r)
          /\ imageStore' = (IF res = [kind |-> "return", value |-> "dataurl"]
                              THEN imageStore \cup {runs[r].term} ELSE imageStore)
          /\ needsApiKey' = (IF LearningMounted /\ res = [kind |-> "throw", value |-> "API_KEY_RESET"]
                               THEN TRUE ELSE needsApiKey)
          /\ generatingImage' = FinallyFlag(runs[r])
          /\ prep' = PrepAfter(runs[r])
  /\ UNCHANGED <<mode, currentIndex, hasKey>>
  /\ UNCHANGED learnRest

\* Prepare All Illustrations: handlePrepareAll up to its first await
\* settles; with a credential the loop starts, without one openSelectKey
\* is awaited
LearnPrepareAll ==
  /\ LearnScreen = "card"
  /\ prep.pc = "idle"
  /\ prep' = (IF hasKey THEN [pc |-> "loop", i |-> 0, run |-> 0, stop |-> FALSE, seen |-> currentIndex]
              ELSE [pc |-> "select", i |-> 0, run |-> 0, stop |-> prep.stop, seen |-> currentIndex])
  /\ UNCHANGED <<mode, currentIndex, generatingImage, hasKey, imageStore, runs, needsApiKey>>
  /\ UNCHANGED learnRest

\* handlePrepareAll after openSelectKey and the second hasSelectedApiKey
LearnPrepKeySelected ==
  /\ prep.pc = "select"
  /\ hasKey' \in BOOLEAN
  /\ prep' = (IF hasKey' THEN [prep EXCEPT !.pc = "loop", !.stop = FALSE]
              ELSE [NoPrep EXCEPT !.stop = prep.stop])
  /\ UNCHANGED <<mode, currentIndex, generatingImage, imageStore, runs, needsApiKey>>
  /\ UNCHANGED learnRest

\* one turn of the loop of handlePrepareAll: stop at the end or on
\* stopPrepRef, skip a cached item, else await handleGenerateImage(i)
LearnPrepStep ==
  /\ prep.pc = "loop"
  /\ IF prep.i >= Len(items) \/ prep.stop
       THEN /\ prep' = [NoPrep EXCEPT !.stop = prep.stop]
            /\ runs' = runs
       ELSE IF ItemAt(items, prep.i).french \in imageStore
       THEN /\ prep' = [prep EXCEPT !.i = @ + 1]
            /\ runs' = runs
       ELSE /\ Len(runs) < MaxLearnRuns
            /\ runs' = Append(runs, LearnRun(items, prep.i, FALSE, prep.seen, TRUE, "cache"))
            /\ prep' = [prep EXCEPT !.pc = "wait"]
  /\ UNCHANGED <<mode, currentIndex, generatingImage, hasKey, imageStore, needsApiKey>>
  /\ UNCHANGED learnRest

\* the delay after the awaited handleGenerateImage has passed
LearnPrepResume ==
  /\ prep.pc = "delay"
  /\ prep' = [prep EXCEPT !.pc = "loop", !.i = @ + 1]
  /\ UNCHANGED <<mode, currentIndex, generatingImage, hasKey, imageStore, runs, needsApiKey>>
  /\ UNCHANGED learnRest

\* a LearningView whose load effect has set the items, currentIndex 0 and
\* loading false, and whose image effect has run for the first card
InitLearn ==
  /\ store = << >>
  /\ pending = {}
  /\ nCalls = 0
  /\ last = NoCall
  /\ page = [sub |-> "animals", type |-> "VOCABULARY"]
  /\ mode = "learning"
  /\ viewId = 1
  /\ subTopic = NoExtra
  /\ items \in LearnLists
  /\ loading = FALSE
  /\ difficulty = "null"
  /\ quizPc = "idle"
  /\ SpeakIdle
  /\ MsgIdle
  /\ hasKey \in BOOLEAN
  /\ imageStore = {}
  /\ runs = ImageEffect(items, 0)
  /\ needsApiKey = FALSE
  /\ prep = NoPrep
  /\ svc = NoService
  /\ AppIdle

NextLearn ==
  \/ LearnBack
  \/ LearnNext
  \/ StartLearning
  \/ Redraw
  \/ LearnOpenKeySelector
  \/ LearnLookup
  \/ LearnCacheRead
  \/ LearnKeyCheck
  \/ LearnRespond
  \/ LearnPrepareAll
  \/ LearnPrepKeySelected
  \/ LearnPrepStep
  \/ LearnPrepResume

SpecLearn == InitLearn /\ [][NextLearn]_vars

----------------------------------------------------------------------------
(* Properties of seedContent and the content cache *)

\* C1: when the generation request fails (transport error) or its response
\* is not parseable JSON, seedContent returns exactly the list cached before
\* the call, writes nothing to the store and raises no exception.
SeedFailureKeepsCache ==
  (last.call # 0 /\ (last.input.net = "error" \/ last.input.text.body.kind = "garbage"))
    => /\ last.result = last.existing
       /\ ~last.wrote
       /\ ~last.changed
       /\ ~last.threw

\* C1 witness: a call over a non-empty cache got an unparseable response
\* while the store held that cache, and returned it.
SeedFailureSeen ==
  /\ last.call # 0
  /\ last.input.net = "ok"
  /\ last.input.text.body.kind = "garbage"
  /\ Len(last.existing) > 0
  /\ last.result = last.existing

\* C2: for every storage key the stored list never has more than 40 items.
CacheWithinCap ==
  \A id \in DOMAIN store : Len(getStoredContent(id)) <= 40

\* C2 witness: a write truncated existing plus new items to exactly 40.
CacheTruncatedSeen ==
  /\ last.call # 0
  /\ last.wrote
  /\ last.input.text.body.kind = "array"
  /\ Len(last.existing) + Len(last.input.text.body.items) > 40
  /\ Len(getStoredContent(last.storageId)) = 40

\* C3 (as claimed): when the cache of a key holds n < 40 items and a seed call
\* for that key receives k new items, the resulting cache is the first
\* min(n + k, 40) items of the cached items followed by the new ones.
SeedAppendsUpToCap ==
  (last.call # 0 /\ last.requests = 1 /\ last.input.net = "ok"
     /\ last.input.text.body.kind = "array" /\ Len(last.before) < 40)
    => LET new == last.input.text.body.items
           n == Len(last.before)
           k == Len(new)
           m == IF n + k < 40 THEN n + k ELSE 40
       IN /\ Len(last.after) = m
          /\ last.after = SubSeq(last.before \o new, 1, m)

\* C4: a seedContent call made while the cached list has at least 40 items
\* issues no request, writes nothing and returns the cached list unchanged.
SeedIdempotentAtCap ==
  (last.call # 0 /\ Len(last.existing) >= 40)
    => /\ last.requests = 0
       /\ ~last.wrote
       /\ ~last.changed
       /\ last.result = last.existing
       /\ last.after = last.existing

\* C4 witness: a repeated call (the third or a later one) found 40 cached
\* items and returned them.
SeedAtCapSeen ==
  /\ last.call >= 3
  /\ Len(last.existing) >= 40
  /\ last.result = last.existing

\* C5: a seedContent call issues a request exactly when the cached count is
\* below the threshold of its topic (12 for present/past/future, 15
\* otherwise), and then exactly one; at or above it, it returns the cached
\* list without a request or a write.
SeedRequestsBelowThreshold ==
  /\ \A c \in pending :
       Len(c.existing) < (IF c.sub \in {"present", "past", "future"} THEN 12 ELSE 15)
  /\ last.call # 0 =>
       LET thr == IF last.sub \in {"present", "past", "future"} THEN 12 ELSE 15
       IN /\ last.requests = (IF Len(last.existing) < thr THEN 1 ELSE 0)
          /\ Len(last.existing) >= thr =>
               (~last.wrote /\ ~last.changed /\ last.result = last.existing)

\* C5 witness: a verb-tense call found at least 12 but fewer than 15 cached
\* items and returned them without a request.
VerbThresholdSeen ==
  /\ last.call # 0
  /\ last.sub = "present"
  /\ Len(last.existing) >= 12
  /\ Len(last.existing) < 15
  /\ last.requests = 0

\* C6 (as claimed): a response that parses as JSON but is not an array of
\* items with the required fields is treated like a failure (the cached list
\* is returned, nothing is stored), so every stored item has the required
\* fields french, english, example and exampleEnglish.
SchemaMismatchRejected ==
  /\ \A id \in DOMAIN store :
       \A i \in 1..Len(getStoredContent(id)) :
         {"french", "english", "example", "exampleEnglish"} \subseteq DOMAIN getStoredContent(id)[i]
  /\ (last.call # 0 /\ last.input.net = "ok"
        /\ \/ last.input.text.body.kind = "object"
           \/ /\ last.input.text.body.kind = "array"
              /\ \E i \in 1..Len(last.input.text.body.items) :
                   ~({"french", "english", "example", "exampleEnglish"}
                       \subseteq DOMAIN last.input.text.body.items[i]))
       => (last.result = last.existing /\ ~last.wrote)

\* C7 (as claimed): seeding only appends; in every step the list stored for
\* a key is a prefix of the list stored for it afterwards.
CachedItemsOnlyAppended ==
  [][\A id \in DOMAIN store :
       LET old == StoredContent(store, id)
           new == StoredContent(store', id)
       IN Len(old) <= Len(new) /\ SubSeq(new, 1, Len(old)) = old]_vars

\* C8 (as claimed): under any sequence of UI actions no two seedContent
\* calls for the same storage key are between their cache read and their
\* cache write at the same time.
OneWriterPerKey ==
  \A c1 \in pending : \A c2 \in pending : c1.storageId = c2.storageId => c1 = c2

----------------------------------------------------------------------------
(* Properties of the speaking session *)

\* C9 (as claimed): the status derived from isConnecting and isActive moves
\* only along idle -> connecting -> active -> (closed | error): isConnecting
\* turns true only by the start action, isActive turns true only by the
\* session-open callback while isConnecting was true, stopping or closing
\* changes the flags only when isActive was true, and the two flags are
\* never both true.
SessionStatusChain ==
  [][/\ ~(isConnecting' /\ isActive')
     /\ (~isConnecting /\ isConnecting') => op'.name = "startSession"
     /\ (~isActive /\ isActive') => (isConnecting /\ op'.name = "onopen")
     /\ (op'.name \in {"stop", "hidden", "next", "onclose"}
           /\ <<isConnecting', isActive'>> # <<isConnecting, isActive>>) => isActive]_vars

\* C10 (as claimed): when a stop action runs stopSession on an active
\* session whose handle is held, then in that same step the microphone
\* stream acquired at start is released, the remote session is closed and
\* its animation-frame loop is cancelled; no microphone capture of the
\* stopped session is live afterwards.
StopReleasesEverything ==
  (op.name \in {"stop", "hidden", "next"} /\ op.target # 0) =>
     /\ sess[op.target].mic # "live"
     /\ sess[op.target].conn # "open"
     /\ sess[op.target].loop # "running"

\* C11 (as claimed): once a session has been stopped and the view is
\* unmounted, every resource of a session that stopSession or the cleanup
\* touched has been released exactly once: one close() of its handle, one
\* cancelAnimationFrame of its loop, and its microphone stream released.
StopThenUnmountReleasesOnce ==
  (~mounted /\ op.name \in {"stop", "unmount"}) =>
     \A s \in DOMAIN sess :
        (sess[s].closes > 0 \/ sess[s].cancels > 0) =>
           /\ sess[s].closes = 1
           /\ sess[s].cancels = 1
           /\ sess[s].mic = "released"

\* C12 (as claimed): right after an explicit stop, a tab-hidden stop or an
\* unmount, no remote session whose onopen has fired is still open and no
\* animation-frame callback is still scheduled.
StopLeavesNothingRunning ==
  op.name \in {"stop", "hidden", "unmount"} =>
     \A s \in DOMAIN sess : sess[s].conn # "open" /\ sess[s].loop # "running"

\* C13 (as claimed): when getUserMedia fails, startSession rejects without
\* opening a remote session for that run, the status is connecting
\* (isConnecting true, isActive false), and from then on, while the view is
\* mounted, the status stays connecting.
MicFailureStaysConnecting ==
  [][mounted' =>
       /\ \A s \in DOMAIN sess' :
            sess'[s].mic = "denied" =>
               /\ sess'[s].conn = "none"
               /\ (s \in DOMAIN sess /\ sess[s].mic = "asked") => (isConnecting' /\ ~isActive')
       /\ ((\E s \in DOMAIN sess : sess[s].mic = "denied") /\ isConnecting /\ ~isActive)
             => (isConnecting' /\ ~isActive')]_vars

----------------------------------------------------------------------------
(* Properties of the messages of a speaking session *)

TurnEntryHoldsTranscripts ==
  op.name = "turnComplete" =>
     /\ transcriptions[Len(transcriptions)] = [user |-> heard.turnUser, tutor |-> heard.turnTutor]
     /\ currentUserText = <<>>
     /\ currentTutorText = <<>>

----------------------------------------------------------------------------
(* Properties of the service functions and the image handlers *)

\* C17 (as claimed): whenever the image request fails with a message that
\* contains "quota", generateEducationalImage throws QUOTA_EXHAUSTED,
\* whatever else the message contains.
QuotaAlwaysSentinel ==
  (svc.fn = "generateEducationalImage" /\ svc.input.net = "error" /\ "quota" \in svc.input.phrases)
     => svc.result = [kind |-> "throw", value |-> "QUOTA_EXHAUSTED"]

\* C17 (amended): whenever the image request fails with a message that
\* contains "quota", generateEducationalImage throws a sentinel and never
\* the raw error: QUOTA_EXHAUSTED when the message contains neither
\* "Requested entity was not found" nor "API key not valid", and
\* API_KEY_RESET when it contains one of them.
QuotaSentinelUnlessKeyPhrase ==
  (svc.fn = "generateEducationalImage" /\ svc.input.net = "error" /\ "quota" \in svc.input.phrases)
     => svc.result = [kind |-> "throw",
                      value |-> IF svc.input.phrases
                                     \cap {"Requested entity was not found", "API key not valid"} = {}
                                  THEN "QUOTA_EXHAUSTED" ELSE "API_KEY_RESET"]

QuotaSentinelSeen ==
  /\ svc.fn = "generateEducationalImage"
  /\ svc.input.net = "error"
  /\ svc.input.phrases = {"quota"}
  /\ svc.result = [kind |-> "throw", value |-> "QUOTA_EXHAUSTED"]

\* C18 (as claimed): when its request fails, generateEducationalImage
\* throws only API_KEY_RESET or QUOTA_EXHAUSTED and for every other failure
\* returns null; generateQuiz and analyzeHistory return a value whatever
\* their request does.
OnlySentinelsPropagate ==
  /\ (svc.fn = "generateEducationalImage" /\ svc.input.net = "error")
        => svc.result \in {[kind |-> "throw", value |-> "API_KEY_RESET"],
                           [kind |-> "throw", value |-> "QUOTA_EXHAUSTED"],
                           [kind |-> "return", value |-> "null"]}
  /\ svc.fn \in {"generateQuiz", "analyzeHistory"} => svc.result.kind = "return"

\* C19: in every run of handleGenerateImage an image request is issued only
\* after hasSelectedApiKey has returned true in that run; a run whose check
\* returned false issues no request; a run that found a cached image and
\* was not forced made neither the check nor a request.
ImageAttemptAfterKeyCheck ==
  \A r \in DOMAIN runs :
     /\ runs[r].requests > 0 => (runs[r].checks > 0 /\ runs[r].keyOk)
     /\ (runs[r].checks > 0 /\ ~runs[r].keyOk) => runs[r].requests = 0
     /\ runs[r].hit => (~runs[r].force /\ runs[r].checks = 0 /\ runs[r].requests = 0)

ImageAttemptSeen ==
  /\ \E r \in DOMAIN runs : runs[r].requests > 0 /\ runs[r].pc = "done"
  /\ \E r \in DOMAIN runs : runs[r].checks > 0 /\ ~runs[r].keyOk

\* C20: a generateQuiz call that finds the topic cache empty makes exactly
\* one seedContent call and issues its question request only in the step in
\* which that call returns; a call that finds cached items makes no seed
\* call and issues the question request at once.
QuizSeedsOnceBeforeAsking ==
  [][/\ (quizPc = "idle" /\ quizPc' # "idle") =>
          IF Len(StoredContent(store, <<page.sub, "">>)) = 0
            THEN /\ quizPc' = "seeding"
                 /\ nCalls' = nCalls + 1
                 /\ \E c \in pending' :
                      /\ pending' = pending \cup {c}
                      /\ c \notin pending
                      /\ c.caller = "quiz" /\ c.sub = page.sub /\ c.extra = ""
            ELSE /\ quizPc' = "asking"
                 /\ nCalls' = nCalls
                 /\ pending' = pending
     /\ (quizPc = "seeding" /\ quizPc' = "asking") =>
          /\ last'.call # 0 /\ last'.caller = "quiz" /\ last'.view = viewId
          /\ last'.requests = 1
          /\ nCalls' = nCalls
     /\ (quizPc = "seeding" /\ quizPc' = "seeding") =>
          Cardinality({c \in pending' : c.caller = "quiz" /\ c.view = viewId'}) = 1]_vars

QuizSeededSeen ==
  /\ quizPc = "asking"
  /\ last.call # 0
  /\ last.caller = "quiz"
  /\ last.view = viewId

----------------------------------------------------------------------------
(* Properties of the history log and its aggregates *)

\* the sum of the scores of the entries of h whose field has the value key
RECURSIVE ScoreSum(_, _, _)
ScoreSum(h, field, key) ==
  IF h = <<>> THEN 0
  ELSE (IF Head(h)[field] = key THEN Head(h).score ELSE 0) + ScoreSum(Tail(h), field, key)

\* the sum of a numeric field over the elements of a sequence
RECURSIVE FieldSum(_, _)
FieldSum(q, field) == IF q = <<>> THEN 0 ELSE Head(q)[field] + FieldSum(Tail(q), field)

\* m is the integer nearest to 100 * t / 500 (a half rounded up), cut at 100
IsMastery(m, t) ==
  \E r \in {t \div 5, (t \div 5) + 1} :
     /\ 2 * t - 5 < 10 * r
     /\ 10 * r <= 2 * t + 5
     /\ m = IF r > 100 THEN 100 ELSE r

\* C22: the mastery shown for a topic and the powerRating stored in a
\* history entry equal min(round(points / 500 * 100), 100) of the topic's
\* point total at that moment: never above 100, and non-decreasing along
\* the successive entries of one topic.
MasteryClampedMonotone ==
  /\ \A i \in 1..Len(history) :
       LET e == history[i]
           t == ScoreSum(SubSeq(history, 1, i), "subcategory", e.subcategory)
       IN /\ IsMastery(e.powerRating, t)
          /\ e.powerRating <= 100
          /\ \A j \in 1..(i - 1) :
               history[j].subcategory = e.subcategory => history[j].powerRating <= e.powerRating
  /\ \A tp \in Topics :
       LET t == ScoreSum(history, "subcategory", tp.name)
           shown == PowerRating(StatOf(subcategoryStats(history), tp.name))
       IN IsMastery(shown, t) /\ shown <= 100

MasteryClampSeen ==
  \E i \in 1..Len(history) : \E j \in 1..(i - 1) :
     /\ history[j].subcategory = history[i].subcategory
     /\ history[j].powerRating = 51
     /\ history[i].powerRating = 100
     /\ ScoreSum(SubSeq(history, 1, i), "subcategory", history[i].subcategory) > MASTERY_SCORE

\* C23: every step that changes the history appends exactly one entry at
\* its end (the previous log is a prefix of the new one), and after every
\* step the text stored under petits_history parses to the in-memory log.
HistoryAppendOnly ==
  [][/\ history' # history =>
          /\ Len(history') = Len(history) + 1
          /\ SubSeq(history', 1, Len(history)) = history
     /\ JSONParse(persisted'.history).ok
     /\ JSONParse(persisted'.history).value.items = history']_vars

HistoryGrownSeen ==
  /\ Len(history) >= 2
  /\ JSONParse(persisted.history).value.items = history

\* C24: the per-topic, per-day (before the slice) and per-category
\* aggregates of the history have exactly one entry per distinct key, each
\* holding the sum of the scores of the entries with that key, so the
\* values of each aggregate add up to the total of all scores.
AggregatesAreSums ==
  LET idx == 1..Len(history)
      stats == subcategoryStats(history)
      daily == DailyFold(history, <<>>)
      cats == categoryData(history)
      total == FieldSum(history, "score")
  IN /\ DOMAIN stats = {history[i].subcategory : i \in idx}
     /\ \A k \in DOMAIN stats : stats[k] = ScoreSum(history, "subcategory", k)
     /\ Len(daily) = Cardinality({history[i].date : i \in idx})
     /\ {daily[i].date : i \in 1..Len(daily)} = {history[i].date : i \in idx}
     /\ \A i \in 1..Len(daily) : daily[i].score = ScoreSum(history, "date", daily[i].date)
     /\ FieldSum(daily, "score") = total
     /\ Len(cats) = Cardinality({history[i].category : i \in idx})
     /\ {cats[i].name : i \in 1..Len(cats)} = {history[i].category : i \in idx}
     /\ \A i \in 1..Len(cats) : cats[i].value = ScoreSum(history, "category", cats[i].name)
     /\ FieldSum(cats, "value") = total

AggregatesMergedSeen ==
  /\ Len(history) = 3
  /\ Len(DailyFold(history, <<>>)) = 2
  /\ Len(categoryData(history)) = 2
  /\ Cardinality(DOMAIN subcategoryStats(history)) = 2
  /\ FieldSum(history, "score") = 503

----------------------------------------------------------------------------
(* Properties of quizzes and sessions played through the App *)

\* C21: when the question request of generateQuiz fails or its response
\* does not parse, generateQuiz returns the empty list without throwing
\* and QuizView shows its empty screen: loading has ended, no question is
\* read and no points are awarded, then or while the empty screen is shown.
QuizFailureShowsEmptyQuiz ==
  [][/\ ( /\ svc'.fn = "generateQuiz"
          /\ \/ svc'.input.net = "error"
             \/ svc'.input.text.pre # ""
             \/ svc'.input.text.post # ""
             \/ svc'.input.text.body.kind = "garbage" )
        => /\ svc'.result = [kind |-> "return", value |-> <<>>]
           /\ questions' = <<>>
           /\ ~loading'
           /\ QuizScreen' = "empty"
           /\ stars' = stars /\ history' = history /\ tally' = tally
     /\ QuizScreen = "empty" => (stars' = stars /\ history' = history)]_vars

QuizFailureSeen ==
  /\ svc.fn = "generateQuiz"
  /\ svc.input.net = "error"
  /\ QuizScreen = "empty"
  /\ difficulty = "hard"

\* C25: once an option of the shown question is selected nothing changes
\* its selection, the session score or the stars until Next; the question
\* index stays within 0..questions.length-1; at most one correct answer is
\* counted per question; and the score a quiz passes to onFinish is its
\* points per difficulty (10, 20, 35) times its correct answers, which is
\* also the sum of its onPointEarned calls.
OneAnswerPerQuestion ==
  [][/\ ( /\ QuizScreen = "question" /\ QuizScreen' = "question"
          /\ selectedOption # "null"
          /\ currentIndex' = currentIndex /\ viewId' = viewId )
        => (selectedOption' = selectedOption /\ sessionScore' = sessionScore /\ stars' = stars)
     /\ (mode' = "quiz" /\ difficulty' # "null" /\ ~loading' /\ Len(questions') > 0)
        => /\ currentIndex' \in 0..(Len(questions') - 1)
           /\ tally'.correct <= currentIndex' + 1
     /\ (finished'.view # 0 /\ page.type # "SPEAKING")
        => /\ finished'.total = finished'.correct *
                 (IF finished'.difficulty = "easy" THEN 10
                  ELSE IF finished'.difficulty = "medium" THEN 20 ELSE 35)
           /\ finished'.total = finished'.awarded]_vars

QuizFinishedSeen ==
  /\ finished.view # 0
  /\ finished.difficulty = "hard"
  /\ finished.correct = 2
  /\ finished.total = 70
  /\ stars = 70

\* C26 (as claimed): from zero stars and an empty history, whenever no quiz
\* or speaking view is mounted the stars equal the sum of the scores of the
\* history entries.
StarsMatchHistory ==
  (page = NoPage \/ mode = "choice") => stars = FieldSum(history, "score")

----------------------------------------------------------------------------
(* Properties of Next Word and of the callbacks of earlier sessions *)

\* C27 (as claimed): a session is started with the coaching instruction of
\* the practice unit that is selected when it starts, also when Next Word
\* restarts it 400 ms later, and the unit index never moves past the last
\* practice unit.
RestartTargetsNewUnit ==
  /\ op.name = "startSession" => op.unit = unitIndex
  /\ unitIndex < UnitCount

\* C28 (as claimed): whenever the most recently started session is open
\* and has not been stopped, isActive is true.
LatestOpenSessionIsActive ==
  (mounted /\ Len(sess) > 0 /\ sess[Len(sess)].conn = "open") => isActive

----------------------------------------------------------------------------
(* Properties of the cards and image requests of the LearningView *)

\* C29 (as claimed): at most one image request per term is in flight at any
\* time, and while a card is displayed generatingImage is true exactly when
\* a request for the displayed card is in flight.
OneImageRequestPerTerm ==
  /\ \A r1, r2 \in DOMAIN runs :
       (r1 # r2 /\ runs[r1].pc = "request" /\ runs[r2].pc = "request")
         => runs[r1].term # runs[r2].term
  /\ LearnScreen \in {"card", "overview"}
       => (generatingImage <=> \E r \in DOMAIN runs :
                                 runs[r].pc = "request" /\ runs[r].index = currentIndex)

\* C30 (as claimed): while the learning view has a non-empty list loaded the
\* card index is within 0 .. items.length - 1, so the view never renders
\* nothing.
CardIndexInRange ==
  (LearningMounted /\ ~loading /\ Len(items) > 0)
    => (0 <= currentIndex /\ currentIndex < Len(items) /\ LearnScreen # "nothing")

====
